---- MODULE Spec2Model ----
(***************************************************************************)
(* Model of the SharePoint Online connector's HTTP calling layer           *)
(* (connectors/sources/sharepoint_online.py): the token cache              *)
(* MicrosoftSecurityToken, the session MicrosoftAPISession with its        *)
(* semaphore, its throttling backoff and its paginated scroll.             *)
(*                                                                         *)
(* Time is kept in relative form: instead of a wall clock and absolute     *)
(* timestamps, every timestamp the code stores is represented by its       *)
(* distance to the current time, and the action Tick moves the clock by    *)
(* one second.                                                             *)
(***************************************************************************)
EXTENDS Integers, Sequences, FiniteSets, TLC

\* ------------------------------------------------------------------ bounds
MaxOthers == 10      \* further operations, modelled only as permit holders
MaxLeak == 1         \* surplus permits after which no more cancellations
NTokens == 2         \* distinct token values the auth server hands out
MaxTtl == 2          \* largest expires_in the auth server returns
MaxFetchTime == 2    \* longest duration of one _fetch_token call
MaxRetryAfter == 2   \* largest Retry-After header value
MaxPages == 3        \* longest chain of pages the server holds
NDrives == 2         \* drives of the site that is walked
MaxDeltaPages == 2   \* longest sequence of delta pages of one drive
MaxItems == 2        \* most drive items on one delta page
MaxRuns == 2         \* sync runs made on one data source
NSites == 2          \* sites the server lists in the collection
MaxAssignments == 2  \* most role assignments of one list, list item or page
MaxAgeDays == 2      \* largest dontSubextractDriveItemsOlderThan
MaxBudget == 2       \* largest max_retries of the Elasticsearch retrier
MaxInterval == 1     \* largest retry_interval of the Elasticsearch retrier

\* ------------------------------------------------------- program constants
DEFAULT_RETRY_SECONDS == 30
SEMAPHORE_PERMITS == 10
\* variant: a budget of one attempt more
CALL_API_RETRIES_four == 3 + 1
CALL_API_RETRIES == 3
FETCH_TOKEN_RETRIES == 3

\* logical operations of one session that are modelled step by step; the
\* session's further operations are counted in the variable others
Procs == {1, 2}
Solo == {1}
None == 0            \* CacheWithTimeout holds no value
NoHeader == -1       \* response without a Retry-After header

HttpStatuses == {200, 401, 403, 404, 429, 500, 502, 503}
\* outcomes of one POST to the token endpoint: 200, an error status, or 0 for
\* a failure that is not an HTTP response (connection error)
TokenStatuses == {200, 400, 401, 500, 0}

Max(a, b) == IF a > b THEN a ELSE b

\* ------------------------------------------------------------------ errors
NoError == [kind |-> "none", status |-> 0, cause |-> "none"]
ClientResponseError(status) ==
    [kind |-> "ClientResponseError", status |-> status, cause |-> "none"]
ConnectionError == [kind |-> "ConnectionError", status |-> 0, cause |-> "none"]
CancelledError == [kind |-> "CancelledError", status |-> 0, cause |-> "none"]
NotFound == [kind |-> "NotFound", status |-> 404, cause |-> "none"]
InternalServerError ==
    [kind |-> "InternalServerError", status |-> 500, cause |-> "none"]
PermissionsMissing(status) ==
    [kind |-> "PermissionsMissing", status |-> status, cause |-> "scopes"]
TokenFetchFailed(status, cause) ==
    [kind |-> "TokenFetchFailed", status |-> status, cause |-> cause]

VARIABLES
    calls,       \* per logical operation: position in _call_api and locals
    sem,         \* MicrosoftAPISession._semaphore._value
    others,      \* operations holding a permit while consuming a response
    cache,       \* MicrosoftSecurityToken._token_cache
    issued,      \* the token last stored: seconds it is still valid counted
                 \* from the start of its fetch, and the _fetch_token calls
                 \* made for and during its validity
    cancelled    \* MicrosoftAPISession._sleeps has been cancelled

VARIABLES
    scroll_field,  \* MicrosoftAPISession._scroll_field
    chain,         \* the URLs of the pages the server holds, in its order
    pages,         \* the server's response body for every URL of the chain
    sc             \* the generator scroll(url): position, locals, history

VARIABLES
    w,             \* the generator get_docs / get_docs_incrementally: position
                   \* and locals
    sync_cursor,   \* SharepointOnlineDataSource._sync_cursor
    remote,        \* the delta pages the server has served for every drive
    emitted,       \* the documents yielded to the consumer in this run
    hist,          \* history of the run: requests made, delta links seen
    tree           \* the sites the server lists, the list item of a site,
                   \* and configuration["site_collections"]

apiVars == <<calls, sem, others, cache, issued, cancelled>>
scrollVars == <<scroll_field, chain, pages, sc>>
VARIABLES
    features,      \* SharepointOnlineDataSource._features
    docs,          \* the nodes of one site: emitted or not, and their
                   \* _allow_access_control field
    acl            \* history of the access-control operations

walkVars == <<w, sync_cursor, remote, emitted, hist, tree>>
VARIABLES
    item,          \* one drive item as the delta endpoint lists it
    conf,          \* max_drive_item_age and use_text_extraction_service
    dl             \* what the walk and the content fetch did with the item

VARIABLES
    retrier,       \* TransientElasticsearchRetrier: _keep_retrying, _sleeps,
                   \* _max_retries
    ex             \* per caller of execute_with_retry: position and locals

VARIABLES
    lic,           \* one call of ESClient.has_active_license_enabled
    wt,            \* ESClient.wait: _keep_waiting, position, locals, clock
    cc,            \* one call of a function under with_concurrency_control
    tk             \* the Graph and the REST MicrosoftSecurityToken of one
                   \* SharepointOnlineClient

aclVars == <<features, docs, acl>>
itemVars == <<item, conf, dl>>
retryVars == <<retrier, ex>>
esVars == <<lic, wt, cc, tk>>
notApi == <<scrollVars, walkVars, aclVars, itemVars, retryVars, esVars>>
notScroll == <<apiVars, walkVars, aclVars, itemVars, retryVars, esVars>>
notWalk == <<apiVars, scrollVars, aclVars, itemVars, retryVars, esVars>>
notAcl == <<apiVars, scrollVars, walkVars, itemVars, retryVars, esVars>>
notItem == <<apiVars, scrollVars, walkVars, aclVars, retryVars, esVars>>
notRetry == <<apiVars, scrollVars, walkVars, aclVars, itemVars, esVars>>
notLic ==
    <<apiVars, scrollVars, walkVars, aclVars, itemVars, retryVars, wt, cc, tk>>
notWait ==
    <<apiVars, scrollVars, walkVars, aclVars, itemVars, retryVars, lic, cc, tk>>
notCc ==
    <<apiVars, scrollVars, walkVars, aclVars, itemVars, retryVars, lic, wt, tk>>
notTk ==
    <<apiVars, scrollVars, walkVars, aclVars, itemVars, retryVars, lic, wt, cc>>
vars ==
    <<apiVars, scrollVars, walkVars, aclVars, itemVars, retryVars, esVars>>

\* ----------------------------------------------------- connectors.utils
\* CacheWithTimeout.get(): the value while now < expiration, else nothing
CacheWithTimeout_get(c) == IF c.value # None /\ c.left > 0 THEN c.value ELSE None

\* CacheWithTimeout.set(value, expiration_date)
CacheWithTimeout_set(value, left) == [value |-> value, left |-> Max(left, 0)]

\* retryable(retries) around _call_api: a throttled call is repeated while
\* attempts remain; every other error leaves on its first occurrence
retryable_call_api(err, attempt) ==
    /\ err.kind = "ClientResponseError"
    /\ err.status \in {429, 503}
    /\ attempt < CALL_API_RETRIES

\* retryable(retries) around _fetch_token: every failure is repeated at once
\* while attempts remain
retryable_fetch_token(attempt) == attempt < FETCH_TOKEN_RETRIES

\* ------------------------------------------------- MicrosoftSecurityToken
\* variant: now sampled after the request instead of before it
MicrosoftSecurityToken_expiry_after(sinceNow, expires_in) == expires_in

\* now + timedelta(seconds=expires_in), now sampled sinceNow seconds ago
MicrosoftSecurityToken_expiry(sinceNow, expires_in) == expires_in - sinceNow

\* the except clause of get(): classification of a failed _fetch_token
MicrosoftSecurityToken_classify(e) ==
    IF e.kind = "ClientResponseError"
    THEN CASE e.status = 400 -> TokenFetchFailed(400, "tenant_client")
           [] e.status = 401 -> TokenFetchFailed(401, "secret")
           [] OTHER -> TokenFetchFailed(e.status, "generic")
    ELSE e

\* ---------------------------------------------------- MicrosoftAPISession
\* variant: the header is tested for truth instead of presence
retry_seconds_truthy(hdr) ==
    IF hdr # NoHeader /\ hdr # 0 THEN hdr ELSE DEFAULT_RETRY_SECONDS

\* retry_seconds of the 429/503 branch
retry_seconds(hdr) == IF hdr # NoHeader THEN hdr ELSE DEFAULT_RETRY_SECONDS

IsThrottled(status) == status = 429 \/ status = 503

\* variant: only 401 is taken for a missing permission
call_api_error_403raw(status) ==
    IF IsThrottled(status) THEN ClientResponseError(status)
    ELSE IF status = 401 THEN PermissionsMissing(status)
    ELSE IF status = 404 THEN NotFound
    ELSE IF status = 500 THEN InternalServerError
    ELSE ClientResponseError(status)

\* variant: the branch for 500 is missing
call_api_error_500raw(status) ==
    IF IsThrottled(status) THEN ClientResponseError(status)
    ELSE IF status = 403 \/ status = 401 THEN PermissionsMissing(status)
    ELSE IF status = 404 THEN NotFound
    ELSE ClientResponseError(status)

\* the error _call_api raises for an error status
call_api_error(status) ==
    IF IsThrottled(status) THEN ClientResponseError(status)
    ELSE IF status = 403 \/ status = 401 THEN PermissionsMissing(status)
    ELSE IF status = 404 THEN NotFound
    ELSE IF status = 500 THEN InternalServerError
    ELSE ClientResponseError(status)

IdleCall ==
    [pc |-> "idle", attempt |-> 0, tokAttempt |-> 0, sinceNow |-> 0,
     holds |-> FALSE, token |-> None, hdr |-> NoHeader, status |-> 0,
     sleepFor |-> 0, remaining |-> 0, slept |-> 0,
     err |-> NoError, src |-> "none", reqs |-> 0, waits |-> 0,
     throttled |-> 0, got |-> "none", getLive |-> FALSE]

TokenLive == cache.value # None /\ issued.left > 0

\* variant: get() never looks at the cache
TokenGet_refetch(c) ==
    [c EXCEPT !.pc = "token", !.sinceNow = 0, !.tokAttempt = 1,
              !.got = "fetch", !.getLive = TokenLive]

\* MicrosoftSecurityToken.get() up to its first suspension point
TokenGet(c) ==
    LET cached_value == CacheWithTimeout_get(cache) IN
    IF cached_value # None
    THEN [c EXCEPT !.pc = "http", !.token = cached_value,
                   !.got = "cache", !.getLive = TokenLive, !.reqs = @ + 1]
    ELSE [c EXCEPT !.pc = "token", !.sinceNow = 0, !.tokAttempt = 1,
                   !.got = "fetch", !.getLive = TokenLive]

\* _fetch_token calls counted against the validity of the stored token
Fetches(c) ==
    IF c.pc = "token" /\ TokenLive THEN issued.fetches + 1 ELSE issued.fetches

\* entry of _call_api: semaphore.acquire(), then the token
EnterCall(c, s) ==
    IF s > 0
    THEN LET d == TokenGet([c EXCEPT !.holds = TRUE])
         IN  [c |-> d, sem |-> s - 1, fetches |-> Fetches(d)]
    ELSE [c |-> [c EXCEPT !.pc = "acquire"], sem |-> s,
          fetches |-> issued.fetches]

\* locals that are dead once an attempt of _call_api has ended
Cleared(c) ==
    [c EXCEPT !.holds = FALSE, !.tokAttempt = 0, !.sinceNow = 0,
              !.token = None, !.hdr = NoHeader,
              !.sleepFor = 0, !.remaining = 0, !.slept = 0,
              !.got = "none", !.getLive = FALSE]

\* the finally clause of _call_api followed by the decision of retryable
LeaveCall(c, s, e) ==
    IF retryable_call_api(e, c.attempt)
    THEN EnterCall([Cleared(c) EXCEPT !.attempt = @ + 1, !.status = 0,
                                      !.src = "none"], s + 1)
    ELSE [c |-> [Cleared(c) EXCEPT !.pc = "done", !.attempt = 0, !.err = e],
          sem |-> s + 1, fetches |-> issued.fetches]

\* variant: a throttled last attempt raises without a wait
OnThrottled_lastraises(c, status, hdr) ==
    LET d == [c EXCEPT !.status = status, !.throttled = @ + 1] IN
    IF c.attempt >= CALL_API_RETRIES
    THEN LeaveCall([d EXCEPT !.src = "http"], sem, call_api_error(status))
    ELSE [c |-> [d EXCEPT !.pc = "sleep", !.token = None, !.got = "none",
                          !.getLive = FALSE, !.hdr = hdr,
                          !.sleepFor = retry_seconds(hdr),
                          !.remaining = retry_seconds(hdr),
                          !.slept = 0, !.waits = @ + 1],
          sem |-> sem, fetches |-> issued.fetches]

\* the 429/503 branch of _call_api up to its wait: the permit is kept
OnThrottled(c, status, hdr) ==
    [c |-> [c EXCEPT !.pc = "sleep", !.status = status,
                     !.throttled = @ + 1,
                     !.token = None, !.got = "none",
                     !.getLive = FALSE, !.hdr = hdr,
                     !.sleepFor = retry_seconds(hdr),
                     !.remaining = retry_seconds(hdr),
                     !.slept = 0, !.waits = @ + 1],
     sem |-> sem, fetches |-> issued.fetches]

Put(p, r) ==
    /\ calls' = [calls EXCEPT ![p] = r.c]
    /\ sem' = r.sem
    /\ issued' = [issued EXCEPT !.fetches = r.fetches]

Holders == {p \in Procs : calls[p].holds}
Total == sem + others + Cardinality(Holders)

InitApi ==
    /\ calls = [p \in Procs |-> IdleCall]
    /\ sem = SEMAPHORE_PERMITS
    /\ others = 0
    /\ cache = [value |-> None, left |-> 0]
    /\ issued = [left |-> 0, fetches |-> 0]
    /\ cancelled = FALSE

\* a caller starts fetch / scroll page / pipe: first attempt of _call_api
CallStart(p) ==
    /\ calls[p].pc = "idle"
    /\ Put(p, EnterCall([IdleCall EXCEPT !.attempt = 1], sem))
    /\ UNCHANGED <<others, cache, cancelled, notApi>>

\* the caller has taken the result or the exception of its operation
Return(p) ==
    /\ calls[p].pc = "done"
    /\ calls' = [calls EXCEPT ![p] = IdleCall]
    /\ UNCHANGED <<sem, others, cache, issued, cancelled, notApi>>

\* a blocked semaphore.acquire() gets its permit
Acquire(p) ==
    /\ calls[p].pc = "acquire"
    /\ sem > 0
    /\ Put(p, EnterCall(calls[p], sem))
    /\ UNCHANGED <<others, cache, cancelled, notApi>>

\* the token endpoint answers one attempt of _fetch_token
FetchRespond(p, status, tok, ttl) ==
    LET c == calls[p]
        raw == IF status = 0 THEN ConnectionError ELSE ClientResponseError(status)
    IN
    /\ c.pc = "token"
    /\ IF status = 200
       THEN /\ cache' = CacheWithTimeout_set(
                            tok, MicrosoftSecurityToken_expiry(c.sinceNow, ttl))
            /\ issued' = [left |-> Max(ttl - c.sinceNow, 0), fetches |-> 1]
            /\ calls' = [calls EXCEPT ![p] =
                            [c EXCEPT !.pc = "http", !.token = tok, !.reqs = @ + 1,
                                      !.tokAttempt = 0, !.sinceNow = 0]]
            /\ sem' = sem
       ELSE IF retryable_fetch_token(c.tokAttempt)
       THEN /\ calls' = [calls EXCEPT ![p] = [c EXCEPT !.tokAttempt = @ + 1]]
            /\ UNCHANGED <<sem, cache, issued>>
       ELSE /\ Put(p, LeaveCall([c EXCEPT !.src = "token", !.status = status],
                                sem, MicrosoftSecurityToken_classify(raw)))
            /\ cache' = cache
    /\ UNCHANGED <<others, cancelled, notApi>>

\* the API answers the GET of _call_api
HttpRespond(p, status, hdr) ==
    LET c == calls[p] IN
    /\ c.pc = "http"
    /\ hdr # NoHeader => IsThrottled(status)
    /\ IF status = 200
       THEN /\ calls' = [calls EXCEPT ![p] =
                            [c EXCEPT !.pc = "body", !.status = status,
                                      !.token = None, !.got = "none",
                                      !.getLive = FALSE]]
            /\ UNCHANGED <<sem, issued>>
       ELSE IF IsThrottled(status)
       THEN Put(p, OnThrottled(c, status, hdr))
       ELSE Put(p, LeaveCall([c EXCEPT !.src = "http", !.status = status], sem,
                             call_api_error(status)))
    /\ UNCHANGED <<others, cache, cancelled, notApi>>

\* self._sleeps.sleep(retry_seconds) returns; the error is raised again
Wake(p) ==
    LET c == calls[p] IN
    /\ c.pc = "sleep"
    /\ c.remaining = 0 \/ cancelled
    /\ Put(p, LeaveCall([c EXCEPT !.src = "http"], sem, call_api_error(c.status)))
    /\ UNCHANGED <<others, cache, cancelled, notApi>>

\* the caller is done with the response: the generator returns
BodyDone(p) ==
    /\ calls[p].pc = "body"
    /\ Put(p, LeaveCall([calls[p] EXCEPT !.src = "http"], sem, NoError))
    /\ UNCHANGED <<others, cache, cancelled, notApi>>

\* the task running the operation is cancelled at a suspension point
Cancel(p) ==
    LET c == calls[p] IN
    /\ c.pc \in {"acquire", "token", "http", "sleep", "body"}
    /\ Total < SEMAPHORE_PERMITS + MaxLeak
    /\ Put(p, LeaveCall([c EXCEPT !.src = "cancel"], sem, CancelledError))
    /\ UNCHANGED <<others, cache, cancelled, notApi>>

\* another operation of the session takes a permit and reads its response
OtherAcquire ==
    /\ sem > 0
    /\ others < MaxOthers
    /\ sem' = sem - 1
    /\ others' = others + 1
    /\ UNCHANGED <<calls, cache, issued, cancelled, notApi>>

\* such an operation is done with its response, or is cancelled
OtherRelease ==
    /\ others > 0
    /\ sem' = sem + 1
    /\ others' = others - 1
    /\ UNCHANGED <<calls, cache, issued, cancelled, notApi>>

\* MicrosoftAPISession.close()
Close ==
    /\ cancelled' = TRUE
    /\ UNCHANGED <<calls, sem, others, cache, issued, notApi>>

\* one second passes; a sleep that is over returns before the next second
Tick ==
    /\ \A p \in Procs : calls[p].pc = "sleep" =>
            calls[p].remaining > 0 /\ ~cancelled
    /\ \A p \in Procs : calls[p].pc = "token" => calls[p].sinceNow < MaxFetchTime
    /\ calls' = [p \in Procs |->
            IF calls[p].pc = "sleep"
            THEN [calls[p] EXCEPT !.remaining = @ - 1, !.slept = @ + 1]
            ELSE IF calls[p].pc = "token"
            THEN [calls[p] EXCEPT !.sinceNow = @ + 1]
            ELSE calls[p]]
    /\ cache' = [cache EXCEPT !.left = Max(@ - 1, 0)]
    /\ issued' = [issued EXCEPT !.left = Max(@ - 1, 0)]
    /\ UNCHANGED <<sem, others, cancelled, notApi>>

\* ------------------------------------------------------------- scroll
Urls == 1..MaxPages
GRAPH_SCROLL_FIELD == "@odata.nextLink"
REST_SCROLL_FIELD == "odata.nextLink"
ScrollFields == {GRAPH_SCROLL_FIELD, REST_SCROLL_FIELD}
OtherField(f) == IF f = GRAPH_SCROLL_FIELD THEN REST_SCROLL_FIELD
                 ELSE GRAPH_SCROLL_FIELD

Chains == {ch \in UNION {[1..n -> Urls] : n \in 1..MaxPages} :
              \A i, j \in DOMAIN ch : i # j => ch[i] # ch[j]}

\* body of page i of chain ch: its value, the link to the next page under
\* the field of the API the session talks to, and, for the pages in extra,
\* a link under the field name of the other API
PageBody(ch, fld, extra, i) ==
    [f \in {"value"} \cup (IF i < Len(ch) THEN {fld} ELSE {})
                     \cup (IF i \in extra THEN {OtherField(fld)} ELSE {}) |->
        IF f = "value" THEN i
        ELSE IF f = fld /\ i < Len(ch) THEN ch[i + 1]
        ELSE ch[1]]

ScrollIdle ==
    [pc |-> "start", scroll_url |-> 0, graph_data |-> [f \in {} |-> 0],
     requests |-> <<>>, yielded |-> <<>>]

InitNoScroll ==
    /\ scroll_field = GRAPH_SCROLL_FIELD
    /\ chain = <<1>>
    /\ pages = [u \in {1} |-> PageBody(<<1>>, GRAPH_SCROLL_FIELD, {}, 1)]
    /\ sc = ScrollIdle

InitChain ==
    /\ scroll_field \in ScrollFields
    /\ chain \in Chains
    /\ \E extra \in SUBSET (1..Len(chain)) :
          pages = [u \in {chain[i] : i \in 1..Len(chain)} |->
                     PageBody(chain, scroll_field, extra,
                              CHOOSE i \in 1..Len(chain) : chain[i] = u)]
    /\ sc = [ScrollIdle EXCEPT !.scroll_url = chain[1]]

\* variant: scroll follows the Graph field whatever API the session talks to
scroll_next_graph(graph_data, field) ==
    IF GRAPH_SCROLL_FIELD \in DOMAIN graph_data
    THEN graph_data[GRAPH_SCROLL_FIELD] ELSE 0

\* the statements of scroll after the yield: the URL of the next request,
\* or 0 when the loop is left
scroll_next(graph_data, field) ==
    IF field \in DOMAIN graph_data THEN graph_data[field] ELSE 0

\* the consumer asks for a page: the first request, or the code after the
\* yield followed by the next request
ScrollPull ==
    /\ sc.pc \in {"start", "yielded"}
    /\ LET url == IF sc.pc = "start" THEN sc.scroll_url
                  ELSE scroll_next(sc.graph_data, scroll_field)
       IN  IF url = 0
           THEN sc' = [sc EXCEPT !.pc = "ended"]
           ELSE sc' = [sc EXCEPT !.pc = "fetching", !.scroll_url = url,
                                 !.requests = Append(@, url)]
    /\ UNCHANGED <<scroll_field, chain, pages, notScroll>>

\* _get_json returns the body; its value is yielded
ScrollPage ==
    /\ sc.pc = "fetching"
    /\ sc.scroll_url \in DOMAIN pages
    /\ sc' = [sc EXCEPT !.pc = "yielded", !.graph_data = pages[sc.scroll_url],
                        !.yielded = Append(@, pages[sc.scroll_url]["value"])]
    /\ UNCHANGED <<scroll_field, chain, pages, notScroll>>

\* _get_json raises: the error leaves the generator
ScrollFail ==
    /\ sc.pc = "fetching"
    /\ sc' = [sc EXCEPT !.pc = "failed"]
    /\ UNCHANGED <<scroll_field, chain, pages, notScroll>>

NextScroll == ScrollPull \/ ScrollPage \/ ScrollFail


\* =============================================== SharepointOnlineDataSource
\* One site collection with one site is walked; the site has the drives
\* 1..NDrives, one list with one list item that has one attachment, and one
\* site page.  Every network call of the walk is a step of its own that
\* returns or raises.
Drives == 1..NDrives
NoLink == 0                          \* None
DefaultDeltaUrl(d) == d * 10         \* .../drives/{d}/root/delta?$select=...
DeltaLinks(d) == {d * 10 + 1, d * 10 + 2}
FromScratch == 1
FromLink == 2
Origin(d, url) == IF url = DefaultDeltaUrl(d) THEN FromScratch ELSE FromLink
\* the @odata.deltaLink the server puts on the last page of a listing of
\* drive d that was started at url
ServerDeltaLink(d, url) == IF url = d * 10 + 1 THEN d * 10 + 2 ELSE d * 10 + 1
ItemId(d, pg, i) == d * 100 + pg * 10 + i

\* responses of the delta endpoint: n drive items, the first of them with a
\* "deleted" marker when del; a page that is not the last carries
\* @odata.nextLink, the last page carries @odata.deltaLink
DeltaResponses(origin, pg) ==
    {[n |-> n, last |-> l, del |-> x] :
        n \in 0..MaxItems,
        l \in (IF pg >= MaxDeltaPages THEN {TRUE} ELSE BOOLEAN),
        x \in BOOLEAN} \ 
    {r \in [n : 0..MaxItems, last : BOOLEAN, del : BOOLEAN] :
        r.del /\ (r.n = 0 \/ origin = FromScratch)}
NoPage == [n |-> 0, last |-> TRUE, del |-> FALSE]

\* the remote tree does not change: a page served once is served again
Served(d, origin, pg) ==
    IF pg <= Len(remote[d][origin]) THEN {remote[d][origin][pg]}
    ELSE DeltaResponses(origin, pg)

NoCursor == [present |-> FALSE, links |-> [d \in Drives |-> NoLink]]
EmptyDrivesCursor == [present |-> TRUE, links |-> [d \in Drives |-> NoLink]]
\* cursors a caller hands to get_docs_incrementally: None or {}, or a map
\* with an entry for some of the drives
SuppliedCursors ==
    {NoCursor} \cup
    {[present |-> TRUE, links |-> f] :
        f \in {g \in [Drives -> 0..(NDrives * 10 + 1)] :
                  \A d \in Drives : g[d] \in {NoLink, d * 10 + 1}}}

\* init_sync_cursor
init_sync_cursor(cur) == IF ~cur.present THEN EmptyDrivesCursor ELSE cur

\* update_drive_delta_link
update_drive_delta_link(cur, drive_id, link) ==
    IF link = NoLink THEN cur ELSE [cur EXCEPT !.links[drive_id] = link]

\* get_drive_delta_link
get_drive_delta_link(cur, drive_id) == cur.links[drive_id]

\* drive_item_operation
drive_item_operation(deleted) == IF deleted THEN "delete" ELSE "index"

\* variant: drive_items ignores the url it is given
drive_items_url_default(d, url) == DefaultDeltaUrl(d)

\* drive_items: the URL of the first request
drive_items_url(d, url) == IF url = NoLink THEN DefaultDeltaUrl(d) ELSE url

\* variant: the full walk resumes from the stored delta link as well
walk_drive_link_stored(mode, cur, d) == get_drive_delta_link(cur, d)

\* the url argument get_docs / get_docs_incrementally pass to drive_items
walk_drive_link(mode, cur, d) ==
    IF mode = "incremental" THEN get_drive_delta_link(cur, d) ELSE NoLink

\* variant: a page without a delta link hands out its next link instead
response_delta_link_next(d, url, page) ==
    IF page.last THEN ServerDeltaLink(d, url) ELSE d * 10 + 2

\* drive_items_delta: response[DELTA_LINK_KEY] if present, else None
response_delta_link(d, url, page) ==
    IF page.last THEN ServerDeltaLink(d, url) ELSE NoLink

WILDCARD == "*"
Sites == 1..NSites
\* the sites of the collection in the order the server lists them; the
\* drives are those of the first site
SiteName(i) == IF i = 1 THEN "a" ELSE "b"
DrivesOf(i) == IF i = 1 THEN NDrives ELSE 0
AllowLists == SUBSET {WILDCARD, "a", "b"}
SkippedContentTypes ==
    {"Web Template Extensions", "Client Side Component Manifests"}
ContentTypes == SkippedContentTypes \cup {"Item"}
\* one site, every site allowed, a list item with an attachment
DefaultTree ==
    [nsites |-> 1, allowed |-> {WILDCARD}, ctype |-> "Item", attach |-> TRUE]

\* variant: the wildcard is taken for a site name
site_allowed_named(allowed_root_sites, name) == name \in allowed_root_sites
\* the filter of SharepointOnlineClient.sites
site_allowed(allowed_root_sites, name) ==
    ~(WILDCARD \notin allowed_root_sites /\ name \notin allowed_root_sites)

\* variant: every list item is passed over
list_item_skipped_all(content_type) == content_type \in ContentTypes
\* the content types site_list_items passes over
list_item_skipped(content_type) == content_type \in SkippedContentTypes

IdleWalk ==
    [st |-> "running", pc |-> "start", mode |-> "full", dls |-> FALSE,
     arg |-> NoCursor, si |-> 0, di |-> 0, pg |-> 0, it |-> 0, url |-> NoLink,
     page |-> NoPage, link |-> NoLink, err |-> "none", closed |-> "no"]
NoHist ==
    [net |-> FALSE, first |-> [d \in Drives |-> NoLink],
     observed |-> [d \in Drives |-> NoLink],
     surfaced |-> [d \in Drives |-> NoLink],
     start |-> NoCursor, run |-> 1,
     prevIds |-> {}, prevCursor |-> NoCursor, prevMode |-> "none",
     asked |-> {}, written |-> {}, late |-> 0]

Now == [w |-> w, cur |-> sync_cursor, out |-> emitted, h |-> hist]
Become(S) ==
    /\ w' = S.w
    /\ sync_cursor' = S.cur
    /\ emitted' = S.out
    /\ hist' = S.h

Emit(S, kind, id, op) ==
    [S EXCEPT !.out = Append(@, [kind |-> kind, id |-> id, op |-> op]),
              !.h.late = IF S.w.closed = "no" THEN @ ELSE @ + 1]
\* variant: a request made after close() is sent like any other
Request_open(S, pc) ==
    [S EXCEPT !.w.pc = pc, !.h.net = TRUE,
              !.h.asked = IF S.w.si = 0 THEN @ ELSE @ \cup {S.w.si}]
\* a network call is started; after close() the session is closed and the
\* call can only raise
Request(S, pc) ==
    [S EXCEPT !.w.pc = pc, !.h.net = TRUE,
              !.h.asked = IF S.w.si = 0 THEN @ ELSE @ \cup {S.w.si},
              !.w.closed = IF @ = "no" THEN "no" ELSE "yes"]
Yielded(S, pc) == [S EXCEPT !.w.pc = pc]
\* get_docs yields (document, download); get_docs_incrementally adds OP_INDEX
Tag(S) == IF S.w.mode = "incremental" THEN "index" ELSE "none"

\* yield drive_item, download_function(...) [, drive_item_operation(drive_item)]
YieldItem(S) ==
    LET deleted == S.w.page.del /\ S.w.it = 1 IN
    Yielded(Emit(S, "drive_item", ItemId(S.w.di, S.w.pg, S.w.it),
                 IF S.w.mode = "incremental"
                 THEN drive_item_operation(deleted) ELSE "none"),
            "y_item")

\* body of the loop over the items of a page up to the yield:
\* _with_drive_item_access_control asks for the item's permissions when
\* document level security is enabled
ItemStep(S) == IF S.w.dls THEN Request(S, "f_perm") ELSE YieldItem(S)

\* the loop over site_drives: the next drive is yielded, or the drives are
\* exhausted and the lists of the site are requested
NextDrive(S) ==
    IF S.w.di < DrivesOf(S.w.si)
    THEN Yielded(Emit([S EXCEPT !.w.di = @ + 1, !.w.pg = 0, !.w.it = 0,
                                !.w.url = NoLink, !.w.page = NoPage,
                                !.w.link = NoLink],
                      "drive", S.w.di + 1, Tag(S)),
                 "y_drive")
    ELSE Request([S EXCEPT !.w.di = DrivesOf(S.w.si) + 1, !.w.pg = 0, !.w.it = 0,
                           !.w.url = NoLink, !.w.page = NoPage,
                           !.w.link = NoLink],
                 "f_lists")

\* scroll after its yield: the next page is requested when the response
\* carried @odata.nextLink, else the listing of the drive has ended
ScrollOn(S) ==
    IF ~S.w.page.last
    THEN Request([S EXCEPT !.w.pg = @ + 1, !.w.it = 0], "f_page")
    ELSE NextDrive(S)

\* the statement after the loop over the items of a page
AfterPage(S) ==
    ScrollOn([S EXCEPT !.cur = update_drive_delta_link(@, S.w.di, S.w.link),
                       !.h.written = IF S.w.link = NoLink THEN @
                                     ELSE @ \cup {S.w.di}])

\* variant: the delta link of a page is stored as soon as the page arrives
OnPage_eager(S, page) ==
    LET d == S.w.di
        delta_link == response_delta_link(d, S.w.url, page)
        T == [S EXCEPT !.w.page = page,
                       !.h.observed[d] =
                           IF page.last THEN ServerDeltaLink(d, S.w.url) ELSE @]
    IN  IF page.n > 0
        THEN ItemStep([T EXCEPT !.w.link = delta_link, !.w.it = 1,
                         !.cur = update_drive_delta_link(@, d, delta_link),
                         !.h.written = IF delta_link = NoLink THEN @
                                       ELSE @ \cup {d},
                         !.h.surfaced[d] =
                             IF delta_link # NoLink THEN delta_link ELSE @])
        ELSE ScrollOn(T)

\* a response of the delta endpoint arrives: scroll yields it,
\* drive_items_delta turns it into a DriveItemsPage when it has items, and
\* the walk starts on the first item
OnPage(S, page) ==
    LET d == S.w.di
        delta_link == response_delta_link(d, S.w.url, page)
        T == [S EXCEPT !.w.page = page,
                       !.h.observed[d] =
                           IF page.last THEN ServerDeltaLink(d, S.w.url) ELSE @]
    IN  IF page.n > 0
        THEN ItemStep([T EXCEPT !.w.link = delta_link, !.w.it = 1,
                         !.h.surfaced[d] =
                             IF delta_link # NoLink THEN delta_link ELSE @])
        ELSE ScrollOn(T)

\* the consumer pulls after a drive item
NextItem(S) ==
    IF S.w.it < S.w.page.n
    THEN ItemStep([S EXCEPT !.w.it = @ + 1])
    ELSE AfterPage(S)

\* the consumer pulls after a drive: the listing of its items is requested
StartDrive(S) ==
    LET d == S.w.di
        url == drive_items_url(d, walk_drive_link(S.w.mode, S.cur, d))
    IN  Request([S EXCEPT !.w.url = url, !.w.pg = 1,
                          !.h.first[d] = url],
                "f_page")

Raise(S, e) == [S EXCEPT !.w.st = "failed", !.w.err = e]

\* the loop of SharepointOnlineClient.sites over the sites of the page
\* already fetched: the sites the filter rejects are passed over, the next
\* allowed site is yielded, and after the last site the walk ends
RECURSIVE NextSite(_)
NextSite(S) ==
    IF S.w.si >= tree.nsites
    THEN [S EXCEPT !.w.st = "done"]
    ELSE LET i == S.w.si + 1
             T == [S EXCEPT !.w.si = i, !.w.di = 0] IN
         IF site_allowed(tree.allowed, SiteName(i))
         THEN Yielded(Emit(T, "site", i, Tag(T)), "y_site")
         ELSE NextSite(T)

\* the list items of the list have arrived: an item of a content type that
\* is passed over ends the listing, else its attachments are requested when
\* it has any
OnListItems(S) ==
    IF list_item_skipped(tree.ctype)
    THEN Request(S, "f_pages")
    ELSE IF tree.attach
         THEN Request(S, "f_attachments")
         ELSE Yielded(Emit(S, "list_item", S.w.si, Tag(S)), "y_list_item")

\* variant: an empty cursor makes the incremental walk start from scratch
StartWalk_fallback(S) ==
    LET cur == IF S.w.mode = "incremental" THEN init_sync_cursor(S.w.arg)
               ELSE init_sync_cursor(S.cur)
        T == [S EXCEPT !.cur = cur, !.h.start = cur]
    IN  Request(T, "f_collections")

\* the first statements of get_docs (init_sync_cursor) and of
\* get_docs_incrementally (the cursor handed in is stored and must not be
\* empty), up to the request for the site collections
StartWalk(S) ==
    LET cur == IF S.w.mode = "incremental" THEN S.w.arg
               ELSE init_sync_cursor(S.cur)
        T == [S EXCEPT !.cur = cur, !.h.start = cur]
    IN  IF S.w.mode = "incremental" /\ ~cur.present
        THEN Raise(T, "SyncCursorEmpty")
        ELSE Request(T, "f_collections")

YieldPoints ==
    {"start", "y_collection", "y_site", "y_drive", "y_item", "y_list",
     "y_attachment", "y_list_item", "y_page"}
FetchPoints ==
    {"f_collections", "f_sites", "f_drives", "f_perm", "f_lists",
     "f_list_items", "f_attachments", "f_pages"}

\* the code between the yield the generator is suspended at and its next
\* network call, yield or end
Resume(S) ==
    CASE S.w.pc = "start" -> StartWalk(S)
      [] S.w.pc = "y_collection" -> Request(S, "f_sites")
      [] S.w.pc = "y_site" -> Request(S, "f_drives")
      [] S.w.pc = "y_drive" -> StartDrive(S)
      [] S.w.pc = "y_item" -> NextItem(S)
      [] S.w.pc = "y_list" -> Request(S, "f_list_items")
      [] S.w.pc = "y_attachment" ->
            Yielded(Emit(S, "list_item", S.w.si, Tag(S)), "y_list_item")
      [] S.w.pc = "y_list_item" -> Request(S, "f_pages")
      [] S.w.pc = "y_page" -> NextSite(S)

\* variant: site_list_items yields the list item ahead of its attachment
Returned_item_first(S) ==
    CASE S.w.pc = "f_collections" ->
            Yielded(Emit(S, "site_collection", 1, Tag(S)), "y_collection")
      [] S.w.pc = "f_sites" -> NextSite(S)
      [] S.w.pc = "f_drives" -> NextDrive(S)
      [] S.w.pc = "f_perm" -> YieldItem(S)
      [] S.w.pc = "f_lists" ->
            Yielded(Emit(S, "list", S.w.si, Tag(S)), "y_list")
      [] S.w.pc = "f_list_items" -> OnListItems(S)
      [] S.w.pc = "f_attachments" ->
            Yielded(Emit(Emit(S, "list_item", S.w.si, Tag(S)),
                         "attachment", S.w.si, Tag(S)),
                    "y_list_item")
      [] S.w.pc = "f_pages" ->
            Yielded(Emit(S, "page", S.w.si, Tag(S)), "y_page")

\* the code between the return of a network call and the next network
\* call or yield
Returned(S) ==
    CASE S.w.pc = "f_collections" ->
            Yielded(Emit(S, "site_collection", 1, Tag(S)), "y_collection")
      [] S.w.pc = "f_sites" -> NextSite(S)
      [] S.w.pc = "f_drives" -> NextDrive(S)
      [] S.w.pc = "f_perm" -> YieldItem(S)
      [] S.w.pc = "f_lists" ->
            Yielded(Emit(S, "list", S.w.si, Tag(S)), "y_list")
      [] S.w.pc = "f_list_items" -> OnListItems(S)
      [] S.w.pc = "f_attachments" ->
            Yielded(Emit(S, "attachment", S.w.si, Tag(S)), "y_attachment")
      [] S.w.pc = "f_pages" ->
            Yielded(Emit(S, "page", S.w.si, Tag(S)), "y_page")

InitNoWalk ==
    /\ w = IdleWalk
    /\ sync_cursor = NoCursor
    /\ remote = [d \in Drives |-> [o \in {FromScratch, FromLink} |-> <<>>]]
    /\ emitted = <<>>
    /\ hist = NoHist
    /\ tree = DefaultTree

\* a data source on which get_docs or get_docs_incrementally is called
InitWalk ==
    /\ \E mode \in {"full", "incremental"}, dls \in BOOLEAN,
          arg \in SuppliedCursors :
          /\ mode = "full" => arg = NoCursor
          /\ w = [IdleWalk EXCEPT !.mode = mode, !.dls = dls, !.arg = arg]
    /\ sync_cursor = NoCursor
    /\ remote = [d \in Drives |-> [o \in {FromScratch, FromLink} |-> <<>>]]
    /\ emitted = <<>>
    /\ hist = NoHist
    /\ tree = DefaultTree

\* the consumer asks for the next document
\* the server's answers to a full sync of the sites: every drive has
\* MaxDeltaPages pages of MaxItems items
FullPages ==
    [d \in Drives |->
        [o \in {FromScratch, FromLink} |->
            IF o = FromLink THEN <<[n |-> 1, last |-> TRUE, del |-> FALSE]>>
            ELSE [pg \in 1..MaxDeltaPages |->
                     [n |-> MaxItems, last |-> pg = MaxDeltaPages,
                      del |-> FALSE]]]]
\* the cursor a completed sync of every drive leaves
StoredCursor ==
    [present |-> TRUE, links |-> [d \in Drives |-> ServerDeltaLink(d, NoLink)]]

\* a data source with a site allow-list on which get_docs is called, or
\* get_docs_incrementally with the cursor of an earlier sync
InitTree ==
    /\ \E mode \in {"full", "incremental"} :
          w = [IdleWalk EXCEPT
                  !.mode = mode,
                  !.arg = IF mode = "full" THEN NoCursor ELSE StoredCursor]
    /\ sync_cursor = NoCursor
    /\ remote = FullPages
    /\ emitted = <<>>
    /\ hist = NoHist
    /\ tree \in [nsites : {NSites}, allowed : AllowLists,
                 ctype : ContentTypes, attach : BOOLEAN]

WalkPull ==
    /\ w.st = "running"
    /\ w.pc \in YieldPoints
    /\ Become(Resume(Now))
    /\ UNCHANGED <<remote, tree, notWalk>>

\* a network call other than a request for a delta page returns
WalkReturn ==
    /\ w.st = "running"
    /\ w.closed # "yes"
    /\ w.pc \in FetchPoints
    /\ Become(Returned(Now))
    /\ UNCHANGED <<remote, tree, notWalk>>

\* the request for a delta page returns
WalkPage ==
    /\ w.st = "running"
    /\ w.closed # "yes"
    /\ w.pc = "f_page"
    /\ LET o == Origin(w.di, w.url) IN
       \E page \in Served(w.di, o, w.pg) :
          /\ remote' = IF w.pg <= Len(remote[w.di][o]) THEN remote
                       ELSE [remote EXCEPT ![w.di][o] = Append(@, page)]
          /\ Become(OnPage(Now, page))
    /\ UNCHANGED <<tree, notWalk>>

\* a network call raises after its retries: the error leaves the generator
WalkFail ==
    /\ w.st = "running"
    /\ w.pc \in FetchPoints \cup {"f_page"}
    /\ Become(Raise(Now, "error"))
    /\ UNCHANGED <<remote, tree, notWalk>>

\* the run that follows a completed run on the same data source: a full
\* sync with the settings of the run before
Again ==
    /\ w.st = "done"
    /\ w.closed = "no"
    /\ hist.run < MaxRuns
    /\ w' = [IdleWalk EXCEPT !.mode = "full", !.dls = w.dls]
    /\ emitted' = <<>>
    /\ hist' = [NoHist EXCEPT
                   !.run = hist.run + 1,
                   !.prevIds = {<<emitted[i].kind, emitted[i].id>> :
                                   i \in 1..Len(emitted)},
                   !.prevCursor = sync_cursor,
                   !.prevMode = w.mode]
    /\ UNCHANGED <<sync_cursor, remote, tree, notWalk>>

\* after a completed full sync get_docs is called again on the same data
\* source
WalkAgain == w.mode = "full" /\ Again

\* after a completed incremental sync get_docs is called on the same data
\* source
WalkFullAfterIncremental == w.mode = "incremental" /\ Again

\* SharepointOnlineDataSource.close while the walk is under way: the HTTP
\* session is closed; a request in flight may still deliver its response
WalkClose ==
    /\ w.st = "running"
    /\ w.closed = "no"
    /\ w' = [w EXCEPT !.closed = IF w.pc \in FetchPoints \cup {"f_page"}
                                  THEN "inflight" ELSE "yes"]
    /\ UNCHANGED <<sync_cursor, remote, emitted, hist, tree, notWalk>>

NextWalk == WalkPull \/ WalkReturn \/ WalkPage \/ WalkFail \/ WalkAgain
NextTree == NextWalk \/ WalkClose \/ WalkFullAfterIncremental

\* ========================================================== access control
\* One site with one drive, drive item, list, list item, attachment and site
\* page.  Every operation decorates and emits one node once its parent has
\* been emitted.
DEFAULT_GROUPS == {"Visitors", "Owners", "Members"}
Absent == "None"
GroupTitles == {"grp"}
UserNames == {"alice"}
\* fields of the user object GetUserById returns
UserFields == {"Id", "LoginName", "Title"}
Nodes == {"site_collection", "site", "drive", "drive_item", "list",
          "list_item", "attachment", "page"}
Parent(n) ==
    CASE n = "site" -> "site_collection"
      [] n = "drive" -> "site"
      [] n = "drive_item" -> "drive"
      [] n = "list" -> "site"
      [] n = "list_item" -> "list"
      [] n = "attachment" -> "list_item"
      [] n = "page" -> "site"
      [] OTHER -> "site_collection"

\* a document as the API returned it: no _allow_access_control field
RawDoc == [st |-> "raw", has |-> FALSE, ac |-> {}, own |-> {}]

\* variant: document level security counts as enabled without features
dls_enabled_unset(f) == IF f = "unset" THEN TRUE ELSE f = "on"

\* _dls_enabled
dls_enabled(f) == IF f = "unset" THEN FALSE ELSE f = "on"

\* variant: the default groups are not added
decorate_with_access_control_bare(document, access_control) ==
    IF dls_enabled(features)
    THEN [document EXCEPT !.has = TRUE, !.ac = @ \cup access_control,
                          !.own = access_control]
    ELSE document

\* _decorate_with_access_control; own records the access_control argument
decorate_with_access_control(document, access_control) ==
    IF dls_enabled(features)
    THEN [document EXCEPT !.has = TRUE,
                          !.ac = @ \cup access_control \cup DEFAULT_GROUPS,
                          !.own = access_control]
    ELSE document

\* grantees of the permissions of a drive item: grantedToV2 | grantedTo
Grantees == [siteGroup : {Absent} \cup GroupTitles, user : {Absent} \cup UserNames]
\* grantee.get("siteGroup") or grantee.get("user"), then its loginName or
\* email; None is filtered out
drive_item_principals(permissions) ==
    {IF g.siteGroup # Absent THEN g.siteGroup ELSE g.user : g \in permissions}
        \ {Absent}

\* outcomes of users_and_groups_for_role_assignment for one role assignment:
\* no PrincipalId, NotFound, InternalServerError, a user object, or another
\* error that is not caught
LookupOutcomes == {"noPrincipalId", "404", "500", "ok", "error"}
RoleAssignments ==
    UNION {[1..n -> LookupOutcomes] : n \in 0..MaxAssignments}
Raises(ras) == \E i \in DOMAIN ras : ras[i] = "error"
\* variant: the loop over the role assignments ends at the first lookup that
\* gives nothing
access_control_for_role_assignments_stop(ras) ==
    UNION {IF \A j \in 1..i : ras[j] = "ok" THEN UserFields ELSE {} :
              i \in DOMAIN ras}

\* _access_control_for_role_assignments: access_control += <the result of
\* the lookup>, a list (empty) or the user object, whose keys are added
access_control_for_role_assignments(ras) ==
    UNION {IF ras[i] = "ok" THEN UserFields ELSE {} : i \in DOMAIN ras}

NoAcl ==
    [st |-> "running", err |-> "none", net |-> FALSE,
     groups |-> "none", users |-> "none", node |-> "none", ras |-> <<>>]
Emitted(n) == docs[n].st = "emitted"
Ready(n) == acl.st = "running" /\ docs[n].st = "raw" /\ Emitted(Parent(n))
EmitDoc(n, doc) == docs' = [docs EXCEPT ![n] = [doc EXCEPT !.st = "emitted"]]
Called == IF dls_enabled(features) THEN [acl EXCEPT !.net = TRUE] ELSE acl

InitNoAcl ==
    /\ features = "unset"
    /\ docs = [n \in Nodes |-> RawDoc]
    /\ acl = NoAcl

InitDocs ==
    /\ features \in {"unset", "off", "on"}
    /\ docs = [n \in Nodes |-> RawDoc]
    /\ acl = NoAcl

\* site_collections of the data source
AclCollection ==
    /\ acl.st = "running" /\ docs["site_collection"].st = "raw"
    /\ EmitDoc("site_collection",
               decorate_with_access_control(docs["site_collection"], {}))
    /\ UNCHANGED <<features, acl, notAcl>>

\* _with_site_access_control: site_groups and site_users answer with a body
\* whose "value" gives the titles and names, or with 404 (found is FALSE),
\* which the client turns into the list []; [].get raises AttributeError
AclSite(groupsFound, groups, usersFound, users) ==
    /\ Ready("site")
    /\ IF ~dls_enabled(features)
       THEN /\ ~groupsFound /\ ~usersFound /\ groups = {} /\ users = {}
            /\ EmitDoc("site", docs["site"])
            /\ UNCHANGED acl
       ELSE IF ~groupsFound
       THEN /\ ~usersFound /\ groups = {} /\ users = {}
            /\ acl' = [acl EXCEPT !.net = TRUE, !.groups = "404",
                                  !.st = "failed", !.err = "AttributeError"]
            /\ UNCHANGED docs
       ELSE IF ~usersFound
       THEN /\ users = {}
            /\ acl' = [acl EXCEPT !.net = TRUE, !.groups = "ok",
                                  !.users = "404",
                                  !.st = "failed", !.err = "AttributeError"]
            /\ UNCHANGED docs
       ELSE /\ acl' = [acl EXCEPT !.net = TRUE, !.groups = "ok",
                                  !.users = "ok"]
            /\ EmitDoc("site",
                       decorate_with_access_control(docs["site"],
                           (groups \cup users) \ {Absent}))
    /\ UNCHANGED <<features, notAcl>>

\* site_drives of the data source
AclDrive ==
    /\ Ready("drive")
    /\ EmitDoc("drive",
               decorate_with_access_control(docs["drive"], docs["site"].ac))
    /\ UNCHANGED <<features, acl, notAcl>>

\* _with_drive_item_access_control
AclDriveItem(permissions) ==
    /\ Ready("drive_item")
    /\ IF ~dls_enabled(features)
       THEN /\ permissions = {}
            /\ EmitDoc("drive_item", docs["drive_item"])
       ELSE EmitDoc("drive_item",
                    decorate_with_access_control(docs["drive_item"],
                        drive_item_principals(permissions)))
    /\ acl' = Called
    /\ UNCHANGED <<features, notAcl>>

\* _with_site_list_access_control, _with_list_item_access_control and
\* _with_site_page_access_control: the role assignments are fetched (404
\* gives {}) and every one of them is looked up
AclRoleAssigned(n, found, ras) ==
    /\ n \in {"list", "list_item", "page"}
    /\ Ready(n)
    /\ IF ~dls_enabled(features)
       THEN /\ ~found /\ ras = <<>>
            /\ EmitDoc(n, docs[n])
            /\ UNCHANGED acl
       ELSE IF ~found
       THEN /\ ras = <<>>
            /\ EmitDoc(n, decorate_with_access_control(docs[n], {}))
            /\ acl' = Called
       ELSE IF Raises(ras)
       THEN /\ acl' = [acl EXCEPT !.net = TRUE, !.st = "failed",
                                  !.err = "error", !.node = n, !.ras = ras]
            /\ UNCHANGED docs
       ELSE /\ EmitDoc(n, decorate_with_access_control(docs[n],
                              access_control_for_role_assignments(ras)))
            /\ acl' = [Called EXCEPT !.node = n, !.ras = ras]
    /\ UNCHANGED <<features, notAcl>>

\* site_list_items of the data source: an attachment of a list item
AclAttachment ==
    /\ Ready("attachment")
    /\ EmitDoc("attachment",
               decorate_with_access_control(docs["attachment"],
                                            docs["list_item"].ac))
    /\ UNCHANGED <<features, acl, notAcl>>

NextAcl ==
    \/ AclCollection
    \/ \E groupsFound \in BOOLEAN, groups \in SUBSET (GroupTitles \cup {Absent}),
          usersFound \in BOOLEAN, users \in SUBSET (UserNames \cup {Absent}) :
            AclSite(groupsFound, groups, usersFound, users)
    \/ AclDrive
    \/ \E permissions \in SUBSET Grantees : AclDriveItem(permissions)
    \/ \E n \in Nodes, found \in BOOLEAN, ras \in RoleAssignments :
            AclRoleAssigned(n, found, ras)
    \/ AclAttachment

\* ======================================================= content download
\* One drive item of a delta page, from the body of the loop over the page to
\* the call of the content-fetch function that was yielded with it.
MAX_DOCUMENT_SIZE == 10485760
Today == MaxAgeDays + 1     \* datetime.utcnow(), in days
Sizes == {0, 1, MAX_DOCUMENT_SIZE, MAX_DOCUMENT_SIZE + 1, 20000000}

\* variant: a document of exactly the maximum size counts as too large
download_function_atleast(drive_item, max_drive_item_age, extraction) ==
    IF ~drive_item.hasUrl THEN FALSE
    ELSE IF ~drive_item.hasModified THEN FALSE
    ELSE IF max_drive_item_age # 0
            /\ drive_item.modified < Today - max_drive_item_age THEN FALSE
    ELSE IF drive_item.size >= MAX_DOCUMENT_SIZE /\ ~extraction THEN FALSE
    ELSE TRUE

\* download_function: TRUE for partial(get_drive_item_content, drive_item),
\* FALSE for None; max_drive_item_age 0 stands for None and for 0 days
download_function(drive_item, max_drive_item_age, extraction) ==
    IF ~drive_item.hasUrl THEN FALSE
    ELSE IF ~drive_item.hasModified THEN FALSE
    ELSE IF max_drive_item_age # 0
            /\ drive_item.modified < Today - max_drive_item_age THEN FALSE
    ELSE IF drive_item.size > MAX_DOCUMENT_SIZE /\ ~extraction THEN FALSE
    ELSE TRUE

\* get_drive_item_content up to the download: is the content downloaded
content_wanted(drive_item, doit, extraction) ==
    /\ doit /\ drive_item.size # 0
    /\ ~(drive_item.size > MAX_DOCUMENT_SIZE /\ ~extraction)

\* _download_content: the text of the extraction service as body, or the
\* base64 of the file as _attachment
content_payload(extraction) == IF extraction THEN "body" ELSE "_attachment"

IdleItem ==
    [hasUrl |-> FALSE, hasModified |-> TRUE, modified |-> 0, size |-> 0]
IdleDl == [pc |-> "listed", func |-> FALSE, payload |-> "none"]

InitNoItem ==
    /\ item = IdleItem
    /\ conf = [max_drive_item_age |-> 0, extraction |-> FALSE]
    /\ dl = [IdleDl EXCEPT !.pc = "off"]

InitItems ==
    /\ item \in [hasUrl : BOOLEAN, hasModified : BOOLEAN,
                 modified : 0..Today, size : Sizes]
    /\ conf \in [max_drive_item_age : 0..MaxAgeDays, extraction : BOOLEAN]
    /\ dl = IdleDl

\* the body of the loop over a page: _timestamp is taken from
\* lastModifiedDateTime (KeyError when it is missing), then the item is
\* yielded with download_function(...)
ItemEmit ==
    /\ dl.pc = "listed"
    /\ IF ~item.hasModified
       THEN dl' = [dl EXCEPT !.pc = "failed"]
       ELSE dl' = [dl EXCEPT !.pc = "emitted",
                      !.func = download_function(item,
                                   conf.max_drive_item_age, conf.extraction)]
    /\ UNCHANGED <<item, conf, notItem>>

\* the consumer calls the function it was given: get_drive_item_content;
\* the download returns or raises
ItemContent(doit, ok) ==
    /\ dl.pc = "emitted" /\ dl.func
    /\ IF ~content_wanted(item, doit, conf.extraction)
       THEN ok /\ dl' = [dl EXCEPT !.pc = "called"]
       ELSE IF ok
       THEN dl' = [dl EXCEPT !.pc = "called",
                             !.payload = content_payload(conf.extraction)]
       ELSE dl' = [dl EXCEPT !.pc = "raised"]
    /\ UNCHANGED <<item, conf, notItem>>

NextItemStep ==
    \/ ItemEmit
    \/ \E doit \in BOOLEAN, ok \in BOOLEAN : ItemContent(doit, ok)

\* ========================================== TransientElasticsearchRetrier
\* Two callers of execute_with_retry on one retrier, each making one call;
\* close() may come at any moment.
Callers == {1, 2}
ERROR_CODES_TO_RETRY == {429, 500, 502, 503, 504}
ApiStatuses == {400, 404, 409} \cup ERROR_CODES_TO_RETRY
\* what one call of func ends in
FuncOutcomes ==
    {[kind |-> k, status |-> 0] : k \in {"ok", "ConnectionTimeout", "other"}}
    \cup {[kind |-> "ApiError", status |-> c] : c \in ApiStatuses}
NoOutcome == [kind |-> "none", status |-> 0]

\* connectors.utils.time_to_sleep_between_retries for LINEAR_BACKOFF
time_to_sleep_between_retries(interval, retry) == interval * retry

IdleExec ==
    [pc |-> "idle", retry |-> 0, remaining |-> 0, last |-> NoOutcome,
     raised |-> "none", sleeps |-> 0, closedAt |-> "none",
     lateAttempts |-> 0, lateTicks |-> 0]

\* variant: close leaves the pending sleeps alone
retrier_close_nocancel(r) ==
    [r EXCEPT !.keep_retrying = FALSE, !.closed = TRUE]

\* TransientElasticsearchRetrier.close; closed records that it was called
retrier_close(r) ==
    [r EXCEPT !.cancelled = TRUE, !.keep_retrying = FALSE, !.closed = TRUE]

\* variant: the loop does not look at _keep_retrying
LoopHead_deaf(e) ==
    IF e.retry < retrier.max_retries
    THEN [e EXCEPT !.pc = "calling", !.retry = @ + 1, !.remaining = 0,
                   !.lateAttempts = IF retrier.closed THEN @ + 1 ELSE @]
    ELSE [e EXCEPT !.pc = "done", !.remaining = 0,
                   !.raised = "RetryInterruptedError"]

\* the head of the loop of execute_with_retry: the next attempt starts, or
\* the loop is left and RetryInterruptedError is raised
LoopHead(e) ==
    IF retrier.keep_retrying /\ e.retry < retrier.max_retries
    THEN [e EXCEPT !.pc = "calling", !.retry = @ + 1, !.remaining = 0,
                   !.lateAttempts = IF retrier.closed THEN @ + 1 ELSE @]
    ELSE [e EXCEPT !.pc = "done", !.remaining = 0,
                   !.raised = "RetryInterruptedError"]

\* _sleep(retry): a sleep on cancelled sleeps returns at once
GoSleep(e) ==
    [e EXCEPT !.pc = "sleeping", !.sleeps = @ + 1,
              !.remaining =
                  IF retrier.cancelled THEN 0
                  ELSE time_to_sleep_between_retries(retrier.retry_interval,
                                                     e.retry)]

\* variant: every ApiError is retried
AfterFunc_all(e, out) ==
    LET f == [e EXCEPT !.last = out] IN
    CASE out.kind = "ok" -> [f EXCEPT !.pc = "done", !.raised = "none"]
      [] out.kind \in {"ConnectionTimeout", "ApiError"} ->
            IF f.retry >= retrier.max_retries
            THEN [f EXCEPT !.pc = "done", !.raised = out.kind]
            ELSE GoSleep(f)
      [] OTHER -> [f EXCEPT !.pc = "done", !.raised = "other"]

\* the try statement of execute_with_retry once func has ended in out
AfterFunc(e, out) ==
    LET f == [e EXCEPT !.last = out] IN
    CASE out.kind = "ok" -> [f EXCEPT !.pc = "done", !.raised = "none"]
      [] out.kind = "ConnectionTimeout" ->
            IF f.retry >= retrier.max_retries
            THEN [f EXCEPT !.pc = "done", !.raised = "ConnectionTimeout"]
            ELSE GoSleep(f)
      [] out.kind = "ApiError" ->
            IF out.status \notin ERROR_CODES_TO_RETRY
            THEN [f EXCEPT !.pc = "done", !.raised = "ApiError"]
            ELSE IF f.retry >= retrier.max_retries
            THEN [f EXCEPT !.pc = "done", !.raised = "ApiError"]
            ELSE GoSleep(f)
      [] OTHER -> [f EXCEPT !.pc = "done", !.raised = "other"]

InitNoRetry ==
    /\ retrier = [keep_retrying |-> TRUE, cancelled |-> FALSE,
                  closed |-> FALSE, max_retries |-> 0, retry_interval |-> 1]
    /\ ex = [p \in Callers |-> IdleExec]

InitRetrier ==
    /\ \E n \in 0..MaxBudget, i \in 1..MaxInterval :
          retrier = [keep_retrying |-> TRUE, cancelled |-> FALSE,
                     closed |-> FALSE, max_retries |-> n,
                     retry_interval |-> i]
    /\ ex = [p \in Callers |-> IdleExec]

\* execute_with_retry(func) is called
ExecStart(p) ==
    /\ ex[p].pc = "idle"
    /\ ex' = [ex EXCEPT ![p] = LoopHead(@)]
    /\ UNCHANGED <<retrier, notRetry>>

\* func returns or raises
FuncEnd(p, out) ==
    /\ ex[p].pc = "calling"
    /\ ex' = [ex EXCEPT ![p] = AfterFunc(@, out)]
    /\ UNCHANGED <<retrier, notRetry>>

\* the sleep is over, or the sleeps have been cancelled
ExecWake(p) ==
    /\ ex[p].pc = "sleeping"
    /\ ex[p].remaining = 0 \/ retrier.cancelled
    /\ ex' = [ex EXCEPT ![p] = LoopHead(@)]
    /\ UNCHANGED <<retrier, notRetry>>

\* close() of the retrier
RetrierClose ==
    /\ retrier' = retrier_close(retrier)
    /\ ex' = [p \in Callers |->
                 IF ex[p].closedAt = "none"
                 THEN [ex[p] EXCEPT !.closedAt = ex[p].pc] ELSE ex[p]]
    /\ UNCHANGED notRetry

\* a second passes while callers sleep and none of them is due
RetryTick ==
    /\ \E p \in Callers : ex[p].pc = "sleeping"
    /\ \A p \in Callers :
          ex[p].pc = "sleeping" => (ex[p].remaining > 0 /\ ~retrier.cancelled)
    /\ ex' = [p \in Callers |->
                 IF ex[p].pc = "sleeping"
                 THEN [ex[p] EXCEPT !.remaining = @ - 1,
                          !.lateTicks = IF retrier.closed THEN 1 ELSE @]
                 ELSE ex[p]]
    /\ UNCHANGED <<retrier, notRetry>>

NextRetry ==
    \/ \E p \in Callers : ExecStart(p)
    \/ \E p \in Callers, out \in FuncOutcomes : FuncEnd(p, out)
    \/ \E p \in Callers : ExecWake(p)
    \/ RetrierClose
    \/ RetryTick

Next ==
    \/ \E p \in Solo : CallStart(p)
    \/ \E p \in Solo : Return(p)
    \/ \E p \in Solo : Acquire(p)
    \/ \E p \in Solo, s \in TokenStatuses, tok \in 1..NTokens, ttl \in 1..MaxTtl :
            FetchRespond(p, s, tok, ttl)
    \/ \E p \in Solo, s \in HttpStatuses, h \in {NoHeader} \cup (0..MaxRetryAfter) :
            HttpRespond(p, s, h)
    \/ \E p \in Solo : Wake(p)
    \/ \E p \in Solo : BodyDone(p)
    \/ \E p \in Solo : Cancel(p)
    \/ OtherAcquire
    \/ OtherRelease
    \/ Close
    \/ Tick

\* ------------------------------------------------------------- ESClient
\* a part of the model that a specification leaves out
Off == [pc |-> "off"]
InitNoLic == lic = Off
InitNoWait == wt = Off
InitNoCc == cc = Off
InitNoTk == tk = Off
InitNoEs == InitNoLic /\ InitNoWait /\ InitNoCc /\ InitNoTk

\* the values of the members of License that have a rank
RankedLicenses == {"basic", "gold", "platinum", "enterprise", "trial"}
EXPIRED == "expired"
\* what Elasticsearch reports as license.status and license.type; a
\* response without a status reads as ""
ReportedStatuses == {"active", "expired", "Expired", ""}
ReportedTypes == RankedLicenses \cup {"Trial", "Gold"}
\* str.lower on the strings above
Lower(str) ==
    CASE str = "Expired" -> "expired"
      [] str = "Trial" -> "trial"
      [] str = "Gold" -> "gold"
      [] OTHER -> str

\* variant: a trial license is the least powerful one
license_order_trial_first ==
    <<"trial", "basic", "gold", "platinum", "enterprise">>
license_order == <<"basic", "gold", "platinum", "enterprise", "trial">>
\* list.index
Index(seq, x) == CHOOSE i \in 1..Len(seq) : seq[i] = x

\* has_active_license_enabled once license.get has answered
has_active_license_enabled(license_, license_info) ==
    LET is_expired == Lower(license_info.status) = "expired" IN
    IF is_expired THEN <<FALSE, EXPIRED>>
    ELSE LET actual_license == Lower(license_info.type)
             license_index == Index(license_order, actual_license)
         IN  <<Index(license_order, license_) <= license_index,
               actual_license>>

InitLic ==
    /\ lic \in [pc : {"asked"}, license_ : RankedLicenses,
                status : ReportedStatuses, type : ReportedTypes,
                result : {<<>>}]
    /\ InitNoWait /\ InitNoCc /\ InitNoTk

\* license.get answers and has_active_license_enabled returns
LicenseAnswer ==
    /\ lic.pc = "asked"
    /\ lic' = [lic EXCEPT
                  !.pc = "returned",
                  !.result = has_active_license_enabled(
                                 lic.license_,
                                 [status |-> lic.status, type |-> lic.type])]
    /\ UNCHANGED notLic

NextLic == LicenseAnswer

\* ---------------------------------------------------------- ESClient.wait
\* durations are whole seconds; initial_backoff_duration and
\* backoff_multiplier are positive, as their defaults 5 and 2 are
MaxWaitDuration == 3
MaxBackoff == 2
MaxMultiplier == 2
MaxPingTime == 1
PingOutcomes == {"response", "None", "raises"}

\* variant: the sleep between two pings never grows
next_backoff_flat(backoff, backoff_multiplier) == backoff
\* backoff *= self.backoff_multiplier
next_backoff(backoff, backoff_multiplier) == backoff * backoff_multiplier

\* an ESClient on which wait() has been called: backoff and start are set
InitWt ==
    /\ \E max_wait_duration \in 0..MaxWaitDuration,
          initial_backoff_duration \in 1..MaxBackoff,
          backoff_multiplier \in 1..MaxMultiplier :
          wt = [pc |-> "head",
                max_wait_duration |-> max_wait_duration,
                initial_backoff_duration |-> initial_backoff_duration,
                backoff_multiplier |-> backoff_multiplier,
                backoff |-> initial_backoff_duration,
                elapsed |-> 0, left |-> 0, pinging |-> 0,
                keep_waiting |-> TRUE, cancelled |-> FALSE,
                closed |-> FALSE, result |-> "none",
                pings |-> <<>>, sleeps |-> <<>>, stopped_at |-> 0]
    /\ InitNoLic /\ InitNoCc /\ InitNoTk

\* the test of the while loop and the statements up to the call of ping, or
\* the statements after the loop
WaitHead ==
    /\ wt.pc = "head"
    /\ wt' = IF wt.elapsed < wt.max_wait_duration
             THEN IF ~wt.keep_waiting
                  THEN [wt EXCEPT !.pc = "done", !.closed = TRUE,
                                  !.result = "None"]
                  ELSE [wt EXCEPT !.pc = "ping", !.pinging = 0]
             ELSE [wt EXCEPT !.pc = "done", !.closed = TRUE,
                             !.result = "None"]
    /\ UNCHANGED notWait

\* client.info() ends: ping returns the response, or None after an ApiError
\* or a ConnectionError, or lets another exception through; wait returns the
\* response, or starts the sleep, which returns at once when the sleeps
\* have been cancelled
WaitPing ==
    /\ wt.pc = "ping"
    /\ \E outcome \in PingOutcomes :
          wt' = CASE outcome = "response" ->
                       [wt EXCEPT !.pc = "done", !.result = "response",
                                  !.pings = Append(@, outcome)]
                  [] outcome = "raises" ->
                       [wt EXCEPT !.pc = "done", !.result = "raised",
                                  !.pings = Append(@, outcome)]
                  [] outcome = "None" ->
                       [wt EXCEPT !.pc = "sleep",
                                  !.left = IF wt.cancelled THEN 0
                                           ELSE wt.backoff,
                                  !.pings = Append(@, outcome),
                                  !.sleeps = Append(@, wt.backoff)]
    /\ UNCHANGED notWait

\* the sleep is over or has been cancelled: the backoff grows and the loop
\* starts over
WaitWake ==
    /\ wt.pc = "sleep"
    /\ wt.left = 0
    /\ wt' = [wt EXCEPT !.pc = "head",
                        !.backoff = next_backoff(@, wt.backoff_multiplier)]
    /\ UNCHANGED notWait

\* stop_waiting
WaitStop ==
    /\ wt.pc \in {"head", "ping", "sleep"}
    /\ wt.keep_waiting
    /\ wt' = [wt EXCEPT !.keep_waiting = FALSE, !.cancelled = TRUE,
                        !.left = 0,
                        !.stopped_at = Len(wt.pings)
                                         + (IF wt.pc = "ping" THEN 1 ELSE 0)]
    /\ UNCHANGED notWait

\* a second passes while a ping or a sleep is under way
WaitTick ==
    /\ \/ wt.pc = "ping" /\ wt.pinging < MaxPingTime
       \/ wt.pc = "sleep" /\ wt.left > 0
    /\ wt' = [wt EXCEPT !.elapsed = @ + 1,
                        !.pinging = IF wt.pc = "ping" THEN @ + 1 ELSE @,
                        !.left = IF wt.pc = "sleep" THEN @ - 1 ELSE @]
    /\ UNCHANGED notWait

NextWt == WaitHead \/ WaitPing \/ WaitWake \/ WaitStop \/ WaitTick

\* ------------------------------------------------ with_concurrency_control
MaxConflictRetries == 4
NValues == 3
Args == 1..2
ConflictError == "ConflictError"
OtherError == "Exception"
\* what an invocation of the wrapped function ends with
InvocationOutcomes ==
    {[kind |-> "returns", value |-> v] : v \in 1..NValues} \cup
    {[kind |-> ConflictError, value |-> 0], [kind |-> OtherError, value |-> 0]}

\* variant: the conflict of the last invocation is swallowed
conflict_is_final_never(retry, retries) == retry > retries
\* if retry >= retries: raise e
conflict_is_final(retry, retries) == retry >= retries

\* a function decorated with with_concurrency_control(retries) is called
InitCc ==
    /\ cc \in [pc : {"head"}, retries : 0..MaxConflictRetries, retry : {1},
               args : Args, invoked : {<<>>}, ended : {<<>>},
               result : {[kind |-> "none", value |-> 0]}]
    /\ InitNoLic /\ InitNoWait /\ InitNoTk

\* while retry <= retries: the function is invoked with the arguments of
\* the call; after the loop wrapped returns None
CcHead ==
    /\ cc.pc = "head"
    /\ cc' = IF cc.retry <= cc.retries
             THEN [cc EXCEPT !.pc = "func", !.invoked = Append(@, cc.args)]
             ELSE [cc EXCEPT !.pc = "done",
                             !.result = [kind |-> "None", value |-> 0]]
    /\ UNCHANGED notCc

\* the invocation ends: its result is returned, a ConflictError is raised
\* again or counted, any other exception leaves wrapped
CcFuncEnd ==
    /\ cc.pc = "func"
    /\ \E outcome \in InvocationOutcomes :
          LET c == [cc EXCEPT !.ended = Append(@, outcome)] IN
          cc' = IF outcome.kind = ConflictError
                THEN IF conflict_is_final(cc.retry, cc.retries)
                     THEN [c EXCEPT !.pc = "done", !.result = outcome]
                     ELSE [c EXCEPT !.pc = "head", !.retry = @ + 1]
                ELSE [c EXCEPT !.pc = "done", !.result = outcome]
    /\ UNCHANGED notCc

NextCc == CcHead \/ CcFuncEnd

\* --------------------------------- the two tokens of SharepointOnlineClient
TokenTypes == {"graph", "rest"}
Getters == {1, 2}
\* variant: the tokens share one cache
token_cache_shared(t) == "graph"
\* MicrosoftSecurityToken.__init__: every token object has its own cache
token_cache_of(t) == t

IdleGet ==
    [pc |-> "idle", of |-> "graph", sinceNow |-> 0, result |-> None,
     fetched |-> FALSE, err |-> NoError]

InitTk ==
    /\ tk = [cache |-> [t \in TokenTypes |-> [value |-> None, left |-> 0]],
             get |-> [g \in Getters |-> IdleGet]]
    /\ InitNoLic /\ InitNoWait /\ InitNoCc

\* get() is called on token t: the cached value is returned, or now is
\* sampled and _fetch_token awaited
TkGet(g, t) ==
    LET cached_value == CacheWithTimeout_get(tk.cache[token_cache_of(t)]) IN
    /\ tk.get[g].pc = "idle"
    /\ tk' = [tk EXCEPT !.get[g] =
                 IF cached_value # None
                 THEN [IdleGet EXCEPT !.pc = "returned", !.of = t,
                                      !.result = cached_value]
                 ELSE [IdleGet EXCEPT !.pc = "fetching", !.of = t,
                                      !.fetched = TRUE]]
    /\ UNCHANGED notTk

\* _fetch_token returns access_token and expires_in: the cache is set and
\* the token returned
TkFetched(g, access_token, expires_in) ==
    LET c == tk.get[g] IN
    /\ c.pc = "fetching"
    /\ tk' = [tk EXCEPT
                 !.cache[token_cache_of(c.of)] =
                     CacheWithTimeout_set(
                         access_token,
                         MicrosoftSecurityToken_expiry(c.sinceNow, expires_in)),
                 !.get[g] = [c EXCEPT !.pc = "returned",
                                      !.result = access_token]]
    /\ UNCHANGED notTk

\* _fetch_token raises: the error leaves get(), classified
TkFetchFailed(g, status) ==
    LET c == tk.get[g]
        raw == IF status = 0 THEN ConnectionError
               ELSE ClientResponseError(status)
    IN
    /\ c.pc = "fetching"
    /\ status # 200
    /\ tk' = [tk EXCEPT !.get[g] =
                 [c EXCEPT !.pc = "raised",
                           !.err = MicrosoftSecurityToken_classify(raw)]]
    /\ UNCHANGED notTk

\* the caller has taken the token or the error
TkTaken(g) ==
    /\ tk.get[g].pc \in {"returned", "raised"}
    /\ tk' = [tk EXCEPT !.get[g] = IdleGet]
    /\ UNCHANGED notTk

\* one second passes
TkTick ==
    /\ \A g \in Getters :
          tk.get[g].pc = "fetching" => tk.get[g].sinceNow < MaxFetchTime
    /\ tk' = [tk EXCEPT
                 !.cache = [t \in TokenTypes |->
                               [@[t] EXCEPT !.left = Max(@ - 1, 0)]],
                 !.get = [g \in Getters |->
                             IF @[g].pc = "fetching"
                             THEN [@[g] EXCEPT !.sinceNow = @ + 1]
                             ELSE @[g]]]
    /\ UNCHANGED notTk

NextTk ==
    \/ \E g \in Getters, t \in TokenTypes : TkGet(g, t)
    \/ \E g \in Getters, tok \in 1..NTokens, ttl \in 1..MaxTtl :
          TkFetched(g, tok, ttl)
    \/ \E g \in Getters, s \in TokenStatuses : TkFetchFailed(g, s)
    \/ \E g \in Getters : TkTaken(g)
    \/ TkTick

\* ----------------------------------------------------- the specifications
Init ==
    /\ InitApi /\ InitNoScroll /\ InitNoWalk /\ InitNoAcl /\ InitNoItem
    /\ InitNoRetry /\ InitNoEs

Spec == Init /\ [][Next]_vars

InitScroll ==
    /\ InitApi /\ InitChain /\ InitNoWalk /\ InitNoAcl /\ InitNoItem
    /\ InitNoRetry /\ InitNoEs

SpecScroll == InitScroll /\ [][NextScroll]_vars

InitWalker ==
    /\ InitApi /\ InitNoScroll /\ InitWalk /\ InitNoAcl /\ InitNoItem
    /\ InitNoRetry /\ InitNoEs

SpecWalk == InitWalker /\ [][NextWalk]_vars
InitTrees ==
    /\ InitApi /\ InitNoScroll /\ InitTree /\ InitNoAcl /\ InitNoItem
    /\ InitNoRetry /\ InitNoEs
SpecTree == InitTrees /\ [][NextTree]_vars

InitAcl ==
    /\ InitApi /\ InitNoScroll /\ InitNoWalk /\ InitDocs /\ InitNoItem
    /\ InitNoRetry /\ InitNoEs

SpecAcl == InitAcl /\ [][NextAcl]_vars

InitItem ==
    /\ InitApi /\ InitNoScroll /\ InitNoWalk /\ InitNoAcl /\ InitItems
    /\ InitNoRetry /\ InitNoEs

SpecItem == InitItem /\ [][NextItemStep]_vars

InitRetry ==
    /\ InitApi /\ InitNoScroll /\ InitNoWalk /\ InitNoAcl /\ InitNoItem
    /\ InitRetrier /\ InitNoEs

SpecRetry == InitRetry /\ [][NextRetry]_vars

InitNoSharepoint ==
    /\ InitApi /\ InitNoScroll /\ InitNoWalk /\ InitNoAcl /\ InitNoItem
    /\ InitNoRetry
InitLicense == InitNoSharepoint /\ InitLic
InitTokens == InitNoSharepoint /\ InitTk
SpecTokens == InitTokens /\ [][NextTk]_vars
SpecLicense == InitLicense /\ [][NextLic]_vars
InitConcurrency == InitNoSharepoint /\ InitCc
SpecConcurrency == InitConcurrency /\ [][NextCc]_vars
InitWaiting == InitNoSharepoint /\ InitWt
\* the event loop runs a task that can take a step, and client.info() ends
\* within its request timeout
SpecWait == InitWaiting /\ [][NextWt]_vars /\ WF_vars(NextWt)

\* ================================================================ claims
Call(p) == calls[p]
Done(p) == calls[p].pc = "done"

\* C1: a get() issued while a fetched token is unexpired performs no fetch
\* and returns the cached value, a get() issued when no unexpired token is
\* cached performs one fetch; so within the validity of a token exactly one
\* _fetch_token call is made, the one that produced it.
C1_OneFetchPerTtlWindow ==
    /\ TokenLive => issued.fetches = 1
    /\ \A p \in Procs :
        /\ Call(p).got # "none" => (Call(p).getLive <=> Call(p).got = "cache")
        /\ Call(p).got = "cache" =>
              Call(p).pc = "http" /\ Call(p).token = cache.value

C1_Witness ==
    \E p \in Procs : Call(p).got = "cache" /\ TokenLive /\ issued.fetches = 1

\* C2: a token returned from the cache without a fetch is unexpired, where
\* the expiry is the time sampled before the fetch started plus the ttl the
\* fetch returned; the cache never holds a later expiry than that.
C2_CachedTokenUnexpired ==
    /\ cache.value # None => cache.left = issued.left
    /\ \A p \in Procs : Call(p).got = "cache" => Call(p).getLive

C2_Witness ==
    \E p \in Procs : Call(p).got = "cache" /\ cache.left = 1

\* C3: every failure of the token fetch leaves get() as TokenFetchFailed
\* with the cause that belongs to its status (400 tenant/client, 401 secret,
\* anything else generic); no raw transport error leaves get().
C3_TokenFailureIsTokenFetchFailed ==
    \A p \in Procs :
        Done(p) /\ Call(p).src = "token" =>
            /\ Call(p).err.kind = "TokenFetchFailed"
            /\ Call(p).err.cause =
                  CASE Call(p).status = 400 -> "tenant_client"
                    [] Call(p).status = 401 -> "secret"
                    [] OTHER -> "generic"

ExpectedDelay(c) == IF c.hdr # NoHeader THEN c.hdr ELSE 30
Retried(p) ==
    calls[p].pc = "sleep" /\ calls'[p].attempt = calls[p].attempt + 1

\* C4 as stated: after a 429/503 the next attempt of the call starts exactly
\* Retry-After seconds later, or exactly 30 seconds later without the header.
C4_RetryDelayedByRetryAfter ==
    [][\A p \in Procs :
          Retried(p) => calls[p].slept = ExpectedDelay(calls[p])]_vars

\* C4 amended: the next attempt starts exactly Retry-After (or 30) seconds
\* later unless close() has cancelled the session's sleeps; after close()
\* the wait returns early and the next attempt starts at once.
C4_RetryDelayedUnlessClosed ==
    [][\A p \in Procs :
          Retried(p) =>
              IF cancelled THEN calls[p].slept <= ExpectedDelay(calls[p])
              ELSE calls[p].slept = ExpectedDelay(calls[p])]_vars

C4_Witness ==
    \E p \in Procs :
        /\ Call(p).pc = "sleep" /\ Call(p).attempt = 2 /\ ~cancelled
        /\ Call(p).hdr = 1 /\ Call(p).slept = 1 /\ Call(p).remaining = 0

Woke(p) ==
    calls[p].pc = "sleep" /\ calls'[p].pc # "sleep" /\ calls'[p].src # "cancel"

\* C5: one logical call makes at most 3 attempts; a throttled attempt is
\* followed by another attempt while fewer than 3 were made; a success on
\* attempt k <= 3 is what the caller gets, after k - 1 waits; the throttling
\* error reaches the caller only from the third attempt.
C5_AtMostThreeAttempts ==
    /\ [](\A p \in Procs :
            /\ Call(p).reqs <= 3 /\ Call(p).attempt <= 3
            /\ Done(p) /\ Call(p).src = "http" /\ IsThrottled(Call(p).status) =>
                  Call(p).reqs = 3 /\ Call(p).err = ClientResponseError(Call(p).status)
            /\ Done(p) /\ Call(p).err = NoError =>
                  Call(p).reqs \in 1..3 /\ Call(p).waits = Call(p).reqs - 1)
    /\ [][\A p \in Procs :
            Woke(p) /\ calls[p].attempt < 3 =>
                calls'[p].attempt = calls[p].attempt + 1]_vars

C5_Witness ==
    \E p \in Procs :
        Done(p) /\ Call(p).err = NoError /\ Call(p).reqs = 3 /\ Call(p).waits = 2

\* C6: a 401 or 403 response ends the call at once with PermissionsMissing:
\* no wait follows that response and no further request is made.
C6_UnauthorizedRaisesAtOnce ==
    \A p \in Procs :
        /\ Call(p).pc = "sleep" => Call(p).status \notin {401, 403}
        /\ Done(p) /\ Call(p).src = "http" /\ Call(p).status \in {401, 403} =>
              /\ Call(p).err = PermissionsMissing(Call(p).status)
              /\ Call(p).waits = Call(p).reqs - 1

C6_Witness ==
    \E p \in Procs :
        /\ Done(p) /\ Call(p).err.kind = "PermissionsMissing"
        /\ Call(p).reqs = 1 /\ Call(p).waits = 0

\* C7: every error status maps to exactly one error: 404 to NotFound, 500 to
\* InternalServerError, 401/403 to PermissionsMissing, 429/503 to a backoff
\* followed by the original error, every other status to the original
\* ClientResponseError.
C7_StatusMapping ==
    \A p \in Procs :
        Done(p) /\ Call(p).src = "http" /\ Call(p).status # 200 =>
            /\ Call(p).err =
                  CASE Call(p).status = 404 -> NotFound
                    [] Call(p).status = 500 -> InternalServerError
                    [] Call(p).status \in {401, 403} ->
                          PermissionsMissing(Call(p).status)
                    [] OTHER -> ClientResponseError(Call(p).status)
            /\ Call(p).waits =
                  IF Call(p).status \in {429, 503} THEN Call(p).reqs
                  ELSE Call(p).reqs - 1

C7_Witness ==
    \E p \in Procs :
        Done(p) /\ Call(p).status = 500 /\ Call(p).err = InternalServerError

\* C8: the free permits plus the operations holding a permit are always 10,
\* whatever the outcome of the calls, cancellation while waiting to acquire
\* included.
C8_PermitConservation == Total = 10

\* C9: at most 10 operations are between semaphore acquisition and release
\* at the same time.
C9_AtMostTenInFlight == others + Cardinality(Holders) <= 10

\* C33: a call in its throttling backoff, fetching its token, waiting for
\* the response or handing out the response body holds its permit, and
\* while ten operations hold a permit, one of them in its backoff, no
\* permit is free for a further call.
C33_ThrottledBlocksOthers ==
    /\ \A p \in Procs :
          calls[p].pc \in {"sleep", "token", "http", "body"} => calls[p].holds
    /\ ((\E p \in Procs : calls[p].pc = "sleep")
           /\ others + Cardinality(Holders) >= SEMAPHORE_PERMITS) => sem = 0

\* C34: a call has begun as many backoff waits as it has received 429/503
\* responses, three of each when the third attempt was throttled; the
\* throttling error leaves the call only from a wait that is over or was
\* cancelled, and every such wait is left by the error and nothing else.
C34_WaitPerThrottledResponse ==
    /\ [](\A p \in Procs :
            /\ calls[p].waits = calls[p].throttled
            /\ calls[p].pc = "sleep" => IsThrottled(calls[p].status)
            /\ (calls[p].pc = "done" /\ calls[p].src = "http"
                  /\ IsThrottled(calls[p].status)) =>
                    calls[p].waits = CALL_API_RETRIES)
    /\ [][\A p \in Procs :
            /\ (calls[p].pc = "http" /\ calls'[p].src = "http"
                  /\ calls'[p].pc = "done") => ~IsThrottled(calls'[p].status)
            /\ (calls[p].pc = "sleep" /\ calls'[p].pc # "sleep"
                  /\ calls'[p].src # "cancel") =>
                    calls[p].remaining = 0 \/ cancelled]_vars

C34_Witness ==
    \E p \in Procs :
        /\ calls[p].pc = "done" /\ calls[p].err = ClientResponseError(503)
        /\ calls[p].throttled = 3 /\ calls[p].waits = 3 /\ ~cancelled

IsPrefix(s, t) == Len(s) <= Len(t) /\ \A i \in 1..Len(s) : s[i] = t[i]

\* C10: scroll requests the pages of the chain one by one in the server's
\* order, following the session's next-link field, yields the value of every
\* page it received in that order, and ends exactly after the page without
\* the next-link field.
C10_ScrollFollowsChain ==
    sc.pc # "failed" =>
        /\ IsPrefix(sc.requests, chain)
        /\ Len(sc.yielded) =
              Len(sc.requests) - (IF sc.pc = "fetching" THEN 1 ELSE 0)
        /\ \A i \in 1..Len(sc.yielded) : sc.yielded[i] = i
        /\ sc.pc = "ended" => sc.requests = chain
        /\ sc.pc = "yielded" /\ scroll_field \notin DOMAIN sc.graph_data =>
              sc.requests = chain

C10_Witness ==
    /\ sc.pc = "ended" /\ Len(sc.requests) = 3
    /\ scroll_field = REST_SCROLL_FIELD
    /\ GRAPH_SCROLL_FIELD \in DOMAIN sc.graph_data

\* ------------------------------------------------ walk, delta links, cursor
Kinds == {emitted[k].kind : k \in 1..Len(emitted)}
EmittedIds == {<<emitted[k].kind, emitted[k].id>> : k \in 1..Len(emitted)}
\* the listing of the items of drive d has ended in this run
Drained(d) == w.di > d \/ w.si > 1
ItemEmitted(d, pg, i) ==
    \E k \in 1..Len(emitted) :
        emitted[k].kind = "drive_item" /\ emitted[k].id = ItemId(d, pg, i)

\* C11: once the delta pages of a drive have been consumed through
\* drive_items, the delta link the server sent last has been handed to the
\* consumer on a DriveItemsPage, also when it came on a final page without
\* items.
C11_LatestDeltaLinkSurfaced ==
    \A d \in Drives : Drained(d) => hist.surfaced[d] = hist.observed[d]

\* C12: once the walk has started, the cursor entry of a drive changes only
\* in the step in which the consumer pulls past the last item of the page
\* that carried the new delta link, all items of that page having been
\* yielded; a step in which an error is raised changes no cursor entry.
C12_CursorAfterPageDrained ==
    [][/\ \A d \in Drives :
             (w.pc # "start"
                /\ sync_cursor'.links[d] # sync_cursor.links[d]) =>
                  /\ w.pc = "y_item" /\ w.di = d /\ w.it = w.page.n
                  /\ sync_cursor'.links[d] = w.link
                  /\ w.link = hist.observed[d]
                  /\ \A i \in 1..w.page.n : ItemEmitted(d, w.pg, i)
       /\ w'.st = "failed" => sync_cursor' = sync_cursor]_vars

C12_Witness ==
    /\ sync_cursor.links[1] # hist.start.links[1]
    /\ ItemEmitted(1, 1, 1) /\ ItemEmitted(1, 1, 2)
    /\ w.st = "failed"

C14_FullSyncStoresLatestLinks ==
    (w.st = "done" /\ w.mode = "full") =>
        \A d \in Drives :
            /\ hist.observed[d] # NoLink
            /\ sync_cursor.links[d] = hist.observed[d]

\* C15: get_docs_incrementally called with an empty cursor raises
\* SyncCursorEmpty at its first step, before any network call and before
\* any document.
C15_EmptyCursorRaises ==
    (w.mode = "incremental" /\ ~w.arg.present
        /\ (w.pc # "start" \/ w.st # "running")) =>
            /\ w.st = "failed" /\ w.err = "SyncCursorEmpty"
            /\ ~hist.net
            /\ emitted = <<>>

C15_Witness ==
    /\ w.mode = "incremental" /\ ~w.arg.present
    /\ w.st = "failed" /\ w.err = "SyncCursorEmpty"

\* C16: in an incremental run the first request for the items of a drive
\* with a stored delta link goes to that link; a drive item is tagged delete
\* exactly when it carries a "deleted" marker and index otherwise; every
\* other document is tagged index, and a run that ends has listed
\* collections, sites, drives, lists, list items, attachments and pages.
C16_IncrementalFromStoredLink ==
    w.mode = "incremental" =>
        /\ \A d \in Drives :
              (hist.first[d] # NoLink /\ hist.start.links[d] # NoLink) =>
                  hist.first[d] = hist.start.links[d]
        /\ \A k \in 1..Len(emitted) :
              IF emitted[k].kind = "drive_item"
              THEN \A d \in Drives, pg \in 1..MaxDeltaPages, i \in 1..MaxItems :
                      emitted[k].id = ItemId(d, pg, i) =>
                          LET page == remote[d][Origin(d, hist.first[d])][pg]
                          IN  emitted[k].op =
                                 (IF page.del /\ i = 1 THEN "delete"
                                  ELSE "index")
              ELSE emitted[k].op = "index"
        /\ w.st = "done" =>
              {"site_collection", "site", "drive", "list", "list_item",
               "attachment", "page"} \subseteq Kinds

C16_Witness ==
    /\ w.mode = "incremental" /\ w.st = "done"
    /\ hist.first[1] = 11 /\ hist.first[2] = DefaultDeltaUrl(2)
    /\ \E k \in 1..Len(emitted) : emitted[k].op = "delete"
    /\ \E k \in 1..Len(emitted) :
          emitted[k].kind = "drive_item" /\ emitted[k].op = "index"

\* C37: an incremental run that ended has listed every drive without an
\* entry in the supplied cursor from the default delta URL, has emitted all
\* items of that listing and has stored the delta link the server sent for
\* it; a drive that had a cursor entry when the run started has one at
\* every later point of the run.
C37_UnknownDriveFromScratch ==
    /\ (w.mode = "incremental" /\ w.st = "done") =>
          \A d \in Drives :
              hist.start.links[d] = NoLink =>
                  /\ hist.first[d] = DefaultDeltaUrl(d)
                  /\ \A pg \in 1..Len(remote[d][FromScratch]) :
                        \A i \in 1..remote[d][FromScratch][pg].n :
                            ItemEmitted(d, pg, i)
                  /\ hist.observed[d] # NoLink
                  /\ sync_cursor.links[d] = hist.observed[d]
    /\ w.pc # "start" =>
          \A d \in Drives :
              hist.start.links[d] # NoLink => sync_cursor.links[d] # NoLink

\* C17: a full sync that follows a completed full sync on the same data
\* source, the remote tree unchanged, emits the same set of ids and ends
\* with the same cursor.
C17_FullSyncIdempotent ==
    (hist.run > 1 /\ hist.prevMode = "full" /\ w.mode = "full"
        /\ w.st = "done") =>
            /\ EmittedIds = hist.prevIds
            /\ sync_cursor = hist.prevCursor

C17_Witness ==
    /\ hist.run > 1 /\ w.mode = "full" /\ w.st = "done"
    /\ sync_cursor.links[1] = 11
    /\ \E k \in 1..Len(emitted) : emitted[k].kind = "drive_item"

\* the node of an emission lies in site i or is site i
BelongsTo(e, i) ==
    IF e.kind \in {"drive", "drive_item"} THEN DrivesOf(i) > 0
    ELSE e.kind # "site_collection" /\ e.id = i
HasEmitted(kind, id) ==
    \E k \in 1..Len(emitted) : emitted[k].kind = kind /\ emitted[k].id = id

\* C23: for a site that is neither named in the allow-list nor covered by
\* '*' nothing is emitted and no listing of its descendants is requested;
\* a site the allow-list admits has been emitted and its drives, lists
\* and pages requested when the walk has ended.
C23_SiteAllowList ==
    \A i \in 1..tree.nsites :
        IF WILDCARD \in tree.allowed \/ SiteName(i) \in tree.allowed
        THEN w.st = "done" =>
                /\ HasEmitted("site", i) /\ HasEmitted("list", i)
                /\ HasEmitted("page", i)
                /\ DrivesOf(i) > 0 => HasEmitted("drive", DrivesOf(i))
                /\ i \in hist.asked
        ELSE /\ \A k \in 1..Len(emitted) : ~BelongsTo(emitted[k], i)
             /\ i \notin hist.asked

C23_Witness ==
    /\ w.st = "done" /\ tree.allowed = {"b"}
    /\ HasEmitted("site", 2) /\ HasEmitted("page", 2)
    /\ ~HasEmitted("site", 1) /\ ~HasEmitted("drive", 1)
    /\ 2 \in hist.asked /\ 1 \notin hist.asked

C29_FullSyncCursorFresh ==
    (w.mode = "full" /\ w.st = "done") =>
        \A d \in Drives :
            sync_cursor.links[d] # NoLink => d \in hist.written

\* the site an emitted document belongs to (0 for the collection) and its
\* place in the walk of that site
SiteOf(e) ==
    CASE e.kind = "site_collection" -> 0
      [] e.kind \in {"drive", "drive_item"} ->
            CHOOSE i \in Sites : DrivesOf(i) > 0
      [] OTHER -> e.id
Stage(e) ==
    CASE e.kind \in {"site_collection", "site"} -> 1
      [] e.kind \in {"drive", "drive_item"} -> 2
      [] e.kind \in {"list", "attachment", "list_item"} -> 3
      [] e.kind = "page" -> 4
DriveOfItem(id) == id \div 100

\* C38: in a full and in an incremental run the collection is emitted
\* first, a site ahead of everything of that site, a drive ahead of its
\* items with nothing but its items in between, a list ahead of its list
\* item; within a site the drives with their items come ahead of the lists
\* and these ahead of the pages; an attachment is emitted right before its
\* list item; of a list item of a passed-over content type neither the item
\* nor an attachment is emitted and its attachments are not requested.
C38_EmissionOrder ==
    /\ \A l \in 1..Len(emitted) :
          LET e == emitted[l] IN
          /\ e.kind = "site_collection" <=> l = 1
          /\ e.kind \notin {"site_collection", "site"} =>
                \E k \in 1..(l - 1) :
                    emitted[k].kind = "site" /\ emitted[k].id = SiteOf(e)
          /\ e.kind = "drive_item" =>
                \E k \in 1..(l - 1) :
                    /\ emitted[k].kind = "drive"
                    /\ emitted[k].id = DriveOfItem(e.id)
                    /\ \A j \in (k + 1)..(l - 1) :
                          /\ emitted[j].kind = "drive_item"
                          /\ DriveOfItem(emitted[j].id) = DriveOfItem(e.id)
          /\ e.kind \in {"list_item", "attachment"} =>
                \E k \in 1..(l - 1) :
                    emitted[k].kind = "list" /\ emitted[k].id = e.id
          /\ \A k \in 1..(l - 1) :
                SiteOf(emitted[k]) = SiteOf(e) => Stage(emitted[k]) <= Stage(e)
          /\ (e.kind = "attachment" /\ l < Len(emitted)) =>
                emitted[l + 1].kind = "list_item" /\ emitted[l + 1].id = e.id
          /\ (e.kind = "list_item" /\ tree.attach) =>
                /\ l > 1
                /\ emitted[l - 1].kind = "attachment"
                /\ emitted[l - 1].id = e.id
    /\ tree.ctype \in SkippedContentTypes =>
          /\ w.pc # "f_attachments"
          /\ ~\E k \in 1..Len(emitted) :
                 emitted[k].kind \in {"list_item", "attachment"}

C38_Witness ==
    /\ w.st = "done" /\ w.mode = "full"
    /\ hist.run > 1 /\ hist.prevMode = "incremental"
    /\ <<"attachment", 1>> \in hist.prevIds
    /\ HasEmitted("attachment", 1) /\ HasEmitted("page", 1)
    /\ ItemEmitted(2, 1, 1)
    /\ Len(emitted) >= 9

Admitted(i) == WILDCARD \in tree.allowed \/ SiteName(i) \in tree.allowed
\* the collection, the admitted sites, and their drives, drive items,
\* lists and pages have been emitted
ContainersEmitted ==
    /\ HasEmitted("site_collection", 1)
    /\ \A i \in 1..tree.nsites :
          Admitted(i) =>
             /\ HasEmitted("site", i) /\ HasEmitted("list", i)
             /\ HasEmitted("page", i)
             /\ \A d \in 1..DrivesOf(i) :
                   /\ HasEmitted("drive", d)
                   /\ \A pg \in 1..Len(remote[d][FromScratch]) :
                         \A it \in 1..remote[d][FromScratch][pg].n :
                             ItemEmitted(d, pg, it)

\* C30: a full sync that ran to its end has emitted every node the server
\* lists: the collection, every admitted site, and every drive, drive
\* item, list, list item, attachment and page of an admitted site.
C30_EveryListedNodeEmitted ==
    (w.mode = "full" /\ w.st = "done") =>
        /\ ContainersEmitted
        /\ \A i \in 1..tree.nsites :
              Admitted(i) =>
                 /\ HasEmitted("list_item", i)
                 /\ tree.attach => HasEmitted("attachment", i)

\* C30, amended: as above, but a list item whose content type is "Web
\* Template Extensions" or "Client Side Component Manifests" is never
\* emitted and its attachments are never listed; every other list item is
\* emitted, after its attachments when it has the Attachments field.
C30_ListedNodesEmittedButSkipped ==
    /\ (w.mode = "full" /\ w.st = "done") =>
          /\ ContainersEmitted
          /\ \A i \in 1..tree.nsites :
                (Admitted(i) /\ tree.ctype = "Item") =>
                   /\ HasEmitted("list_item", i)
                   /\ tree.attach => HasEmitted("attachment", i)
    /\ tree.ctype \in {"Web Template Extensions",
                       "Client Side Component Manifests"} =>
          \A k \in 1..Len(emitted) :
              emitted[k].kind \notin {"list_item", "attachment"}
    /\ ~tree.attach =>
          \A k \in 1..Len(emitted) : emitted[k].kind # "attachment"

C30_Witness ==
    /\ w.mode = "full" /\ w.st = "done" /\ hist.run = 1
    /\ tree.allowed = {WILDCARD} /\ tree.ctype = "Item" /\ tree.attach
    /\ HasEmitted("attachment", NSites) /\ HasEmitted("list_item", 1)
    /\ ItemEmitted(NDrives, MaxDeltaPages, MaxItems)

TypeWalkOK ==
    /\ w.st \in {"running", "done", "failed"}
    /\ w.pc \in YieldPoints \cup FetchPoints \cup {"f_page"}
    /\ w.di \in 0..(NDrives + 1)
    /\ w.pg \in 0..MaxDeltaPages
    /\ w.it \in 0..MaxItems
    /\ sync_cursor.present \in BOOLEAN
    /\ \A d \in Drives : sync_cursor.links[d] \in {NoLink} \cup DeltaLinks(d)
    /\ hist.run \in 1..MaxRuns

\* ---------------------------------------------------------- access control
AclKinds == Nodes \ {"site_collection"}

C19_DisabledIsNoOp ==
    features # "on" =>
        /\ ~acl.net
        /\ acl.st = "running"
        /\ \A n \in Nodes :
              docs[n] \in {RawDoc, [RawDoc EXCEPT !.st = "emitted"]}

C19_Witness ==
    /\ features = "unset"
    /\ \A n \in Nodes : Emitted(n)

\* C20: with access control enabled a 404 of the group listing or of the
\* user listing of a site does not abort: the operations go on and the site
\* is emitted with the principals of the other listing and the default
\* groups.
C20_SiteLookupNotFoundIsEmpty ==
    (features = "on" /\ "404" \in {acl.groups, acl.users}) =>
        /\ acl.st = "running"
        /\ Emitted("site")
        /\ DEFAULT_GROUPS \subseteq docs["site"].ac

\* C21: when the role assignments of a list, list item or page are
\* resolved, a lookup that ends in NotFound or InternalServerError and a role
\* assignment without PrincipalId add nothing, the other role assignments
\* are resolved all the same, and the node is decorated and emitted.
C21_FailedLookupAddsNothing ==
    (features = "on" /\ acl.node # "none" /\ ~Raises(acl.ras)) =>
        /\ Emitted(acl.node)
        /\ docs[acl.node].has
        /\ docs[acl.node].own =
              (IF \E i \in DOMAIN acl.ras : acl.ras[i] = "ok"
               THEN UserFields ELSE {})

C21_Witness ==
    /\ features = "on"
    /\ acl.node = "list_item" /\ acl.ras = <<"500", "ok">>
    /\ Emitted("list_item") /\ docs["list_item"].own = UserFields
    /\ acl.st = "running"

\* C32: a sync is never aborted at a lookup that was answered with 404 at
\* site_groups or site_users.
C32_NotFoundNeverAborts ==
    acl.st = "failed" => "404" \notin {acl.groups, acl.users}

TypeAclOK ==
    /\ features \in {"unset", "off", "on"}
    /\ acl.st \in {"running", "failed"}
    /\ \A n \in Nodes :
          /\ docs[n].st \in {"raw", "emitted"}
          /\ docs[n].ac \subseteq
                DEFAULT_GROUPS \cup GroupTitles \cup UserNames \cup UserFields

TypeItemOK ==
    /\ dl.pc \in {"off", "listed", "emitted", "failed", "called", "raised"}
    /\ dl.payload \in {"none", "body", "_attachment"}
    /\ dl.func \in BOOLEAN

\* ---- TransientElasticsearchRetrier ----

Retryable(out) ==
    \/ out.kind = "ConnectionTimeout"
    \/ out.kind = "ApiError" /\ out.status \in {429, 500, 502, 503, 504}

\* C24: execute_with_retry with budget N makes at most N attempts; a
\* successful attempt ends the call with its result; a ConnectionTimeout
\* or an ApiError with a status of {429, 500, 502, 503, 504} is re-raised
\* at the N-th attempt and followed by a sleep before it; an ApiError with
\* another status and any other exception are raised at once; every
\* attempt after the first comes after exactly one sleep and the attempt
\* that ends the call is followed by none; as long as close() has not been
\* called, a call that made an attempt ends in no other way.
C24_RetryPolicy ==
    \A p \in Callers :
        LET e == ex[p]
            N == retrier.max_retries
            ended == e.pc = "done" /\ e.raised # "RetryInterruptedError"
        IN  /\ e.retry <= N
            /\ (e.pc = "calling" \/ ended) => e.sleeps = e.retry - 1
            /\ e.pc = "sleeping" => e.sleeps = e.retry
            /\ ended =>
                  /\ e.retry >= 1
                  /\ e.raised = (IF e.last.kind = "ok" THEN "none"
                                 ELSE e.last.kind)
                  /\ Retryable(e.last) => e.retry = N
            /\ e.pc = "sleeping" => Retryable(e.last) /\ e.retry < N
            /\ (e.pc = "done" /\ e.retry >= 1 /\ ~ended) =>
                  Retryable(e.last) /\ e.retry < N /\ retrier.closed

C24_Witness ==
    /\ ~retrier.closed /\ retrier.max_retries = 2
    /\ ex[1].pc = "done" /\ ex[1].raised = "ConnectionTimeout"
    /\ ex[1].retry = 2 /\ ex[1].sleeps = 1
    /\ ex[2].pc = "done" /\ ex[2].raised = "ApiError"
    /\ ex[2].last.status = 404 /\ ex[2].retry = 1

\* C25: a call of execute_with_retry ends in RetryInterruptedError only
\* when close() has been called.
C25_InterruptedOnlyByClose ==
    \A p \in Callers :
        (ex[p].pc = "done" /\ ex[p].raised = "RetryInterruptedError") =>
            retrier.closed

\* C26: after close() no caller stays in a backoff sleep while time
\* passes, whether its sleep began before or after the call; a sleep ends
\* in the next trip through the loop and never in an exception; a repeated
\* close() changes nothing.
C26_CancelUnblocksWaiters ==
    [][/\ \A p \in Callers :
             /\ ex'[p].lateTicks = 0
             /\ (ex[p].pc = "sleeping" /\ ex'[p].pc # "sleeping") =>
                    \/ ex'[p].pc = "calling"
                    \/ ex'[p].pc = "done"
                          /\ ex'[p].raised = "RetryInterruptedError"
       /\ retrier.closed => retrier' = retrier]_vars

C26_Witness ==
    /\ retrier.closed
    /\ ex[1].closedAt = "sleeping" /\ ex[1].pc = "done"
    /\ ex[2].closedAt = "calling" /\ ex[2].sleeps = 1 /\ ex[2].pc = "done"

\* C27: after close() execute_with_retry starts no attempt and spends no
\* time in a backoff sleep, whether close() came before the call, during
\* an attempt or during a sleep; a call made after close() ends in
\* RetryInterruptedError without an attempt.
C27_NoAttemptAfterClose ==
    \A p \in Callers :
        /\ ex[p].lateAttempts = 0
        /\ ex[p].lateTicks = 0
        /\ (ex[p].closedAt = "idle" /\ ex[p].pc # "idle") =>
              /\ ex[p].pc = "done" /\ ex[p].retry = 0
              /\ ex[p].raised = "RetryInterruptedError"
        /\ (ex[p].closedAt = "sleeping" /\ ex[p].pc = "done") =>
              ex[p].raised = "RetryInterruptedError"

C27_Witness ==
    /\ ex[1].closedAt = "idle" /\ ex[1].pc = "done"
    /\ ex[2].closedAt = "calling" /\ ex[2].pc = "done"
    /\ ex[2].raised = "RetryInterruptedError" /\ ex[2].retry = 1
    /\ retrier.max_retries = 2

TypeRetryOK ==
    \A p \in Callers :
        /\ ex[p].pc \in {"idle", "calling", "sleeping", "done"}
        /\ ex[p].retry \in 0..MaxBudget
        /\ ex[p].remaining \in 0..(MaxInterval * MaxBudget)

\* ---- ESClient ----

Rank(l) ==
    CASE l = "basic" -> 1 [] l = "gold" -> 2 [] l = "platinum" -> 3
      [] l = "enterprise" -> 4 [] l = "trial" -> 5

\* C31: has_active_license_enabled(L) returns (False, EXPIRED) when the
\* reported status is expired in any spelling, and otherwise
\* (rank(L) <= rank(actual), actual) for the reported license type under
\* the order BASIC < GOLD < PLATINUM < ENTERPRISE < TRIAL.
C31_LicenseRank ==
    lic.pc = "returned" =>
        IF lic.status \in {"expired", "Expired"}
        THEN lic.result = <<FALSE, "expired">>
        ELSE \E actual \in RankedLicenses :
                /\ lic.type \in {actual}
                      \cup (IF actual = "trial" THEN {"Trial"} ELSE {})
                      \cup (IF actual = "gold" THEN {"Gold"} ELSE {})
                /\ lic.result = <<Rank(lic.license_) <= Rank(actual), actual>>

C31_Witness ==
    /\ lic.pc = "returned" /\ lic.status = "active"
    /\ lic.license_ = "enterprise" /\ lic.type = "Trial"
    /\ lic.result = <<TRUE, "trial">>

\* ---- the tokens ----

\* C35: a get() that finds no unexpired value in its cache performs its
\* own fetch also while another get() on the same token is fetching; the
\* get() whose fetch completes returns the value of that fetch and leaves
\* it in the cache with the expiry of that fetch (the time sampled at its
\* start plus its expires_in), whatever an overlapping call stored before.
C35_OverlappingGetsFetchTwice ==
    [][\A g \in Getters :
          LET c == tk.get[g]
              d == tk'.get[g]
          IN  /\ (c.pc = "idle" /\ d.pc # "idle"
                    /\ (tk.cache[d.of].value = None
                           \/ tk.cache[d.of].left = 0)) =>
                      d.pc = "fetching" /\ d.fetched
              /\ (c.pc = "fetching" /\ d.pc = "returned") =>
                    /\ d.result # None
                    /\ tk'.cache[c.of].value = d.result
                    /\ \E ttl \in 1..MaxTtl :
                          tk'.cache[c.of].left = Max(ttl - c.sinceNow, 0)]_vars

C35_Witness ==
    /\ tk.get[1].pc = "returned" /\ tk.get[1].fetched /\ tk.get[1].result = 1
    /\ tk.get[2].pc = "returned" /\ tk.get[2].fetched /\ tk.get[2].result = 2
    /\ tk.get[1].of = "rest" /\ tk.get[2].of = "rest"
    /\ tk.cache["rest"].value = 1 /\ tk.cache["rest"].left = 1

\* C36: a get() whose fetch fails changes neither cache, so that a get()
\* that follows fetches again unless a value was stored meanwhile; a step
\* of a get() on one token leaves the cache of the other token as it is,
\* and the value a get() returns without a fetch is the one in the cache
\* of its own token.
C36_FailedFetchKeepsCache ==
    [][\A g \in Getters :
          LET c == tk.get[g]
              d == tk'.get[g]
          IN  /\ (c.pc = "fetching" /\ d.pc = "raised") =>
                    tk'.cache = tk.cache
              /\ d.pc # c.pc =>
                    \A t \in TokenTypes \
                              {IF c.pc = "idle" THEN d.of ELSE c.of} :
                        tk'.cache[t] = tk.cache[t]
              /\ (c.pc = "idle" /\ d.pc = "returned") =>
                    /\ d.result = tk.cache[d.of].value
                    /\ tk.cache[d.of].left > 0]_vars

C36_Witness ==
    /\ tk.get[1].pc = "raised" /\ tk.get[1].of = "graph"
    /\ tk.get[1].err.kind = "TokenFetchFailed"
    /\ tk.cache["graph"].value = None
    /\ tk.get[2].pc = "returned" /\ tk.get[2].of = "rest"
    /\ ~tk.get[2].fetched /\ tk.get[2].result = tk.cache["rest"].value

RECURSIVE Pow(_, _)
Pow(b, n) == IF n = 0 THEN 1 ELSE b * Pow(b, n - 1)

\* C39: wait() ends. It returns the response of the first ping that has
\* one, the pings before it having failed. A loop iteration that starts
\* after stop_waiting() closes the client and returns None, and no ping is
\* started after stop_waiting(). A wait that returns None has closed the
\* client, and when nothing stopped it, max_wait_duration has elapsed and no
\* ping had a response. The k-th sleep is asked to last
\* initial_backoff_duration * backoff_multiplier^(k-1), one sleep per failed
\* ping.
C39_WaitTerminates ==
    /\ <>(wt.pc = "done")
    /\ [](/\ wt.result = "response" <=>
                (wt.pings # <<>> /\ wt.pings[Len(wt.pings)] = "response")
          /\ \A k \in 1..(Len(wt.pings) - 1) : wt.pings[k] = "None"
          /\ ~wt.keep_waiting =>
                Len(wt.pings) + (IF wt.pc = "ping" THEN 1 ELSE 0)
                    <= wt.stopped_at
          /\ wt.result = "None" =>
                /\ wt.pc = "done" /\ wt.closed
                /\ \A k \in 1..Len(wt.pings) : wt.pings[k] = "None"
                /\ wt.keep_waiting => wt.elapsed >= wt.max_wait_duration
          /\ wt.closed => wt.result = "None"
          /\ Len(wt.sleeps) =
                Cardinality({k \in 1..Len(wt.pings) : wt.pings[k] = "None"})
          /\ \A k \in 1..Len(wt.sleeps) :
                wt.sleeps[k] = wt.initial_backoff_duration
                                 * Pow(wt.backoff_multiplier, k - 1))
    /\ [][(wt.pc = "head" /\ ~wt.keep_waiting) =>
             /\ wt'.pc = "done" /\ wt'.closed /\ wt'.result = "None"
             /\ wt'.pings = wt.pings]_vars

C39_Witness ==
    /\ wt.pc = "done" /\ wt.result = "None" /\ wt.closed
    /\ ~wt.keep_waiting
    /\ wt.elapsed < wt.max_wait_duration
    /\ Len(wt.sleeps) = 2 /\ wt.sleeps[2] > wt.sleeps[1]

\* C40: the wrapped function is invoked at most `retries` times, each time
\* with the arguments of the call; an invocation other than the first
\* follows an invocation that raised ConflictError; the call ends with the
\* result of the first invocation that returns, with the first exception
\* that is not a ConflictError, or with the ConflictError of invocation
\* number `retries`, and it ends with nothing else when `retries` is
\* positive.
C40_ConflictRetries ==
    LET n == Len(cc.invoked)
        m == Len(cc.ended) IN
    cc.pc # "off" =>
        /\ n <= cc.retries
        /\ m = (IF cc.pc = "func" THEN n - 1 ELSE n)
        /\ \A k \in 1..n : cc.invoked[k] = cc.args
        /\ \A k \in 1..(n - 1) : cc.ended[k].kind = ConflictError
        /\ cc.pc = "head" => m < cc.retries \/ cc.retries = 0
        /\ cc.pc = "done" =>
              IF cc.retries = 0
              THEN cc.result.kind = "None" /\ n = 0
              ELSE /\ cc.result = cc.ended[m]
                   /\ cc.result.kind = ConflictError => m = cc.retries
        /\ (m > 0 /\ cc.ended[m].kind # ConflictError) => cc.pc = "done"

C40_Witness ==
    /\ cc.pc = "done"
    /\ cc.retries = 3
    /\ Len(cc.invoked) = 3
    /\ cc.result.kind = ConflictError

TypeOK ==
    /\ sem \in 0..(SEMAPHORE_PERMITS + MaxLeak)
    /\ others \in 0..MaxOthers
    /\ cache.value \in 0..NTokens
    /\ cache.left \in 0..MaxTtl
    /\ issued.left \in 0..MaxTtl
    /\ cancelled \in BOOLEAN
====
